---- MODULE Spec2Model ----
(***************************************************************************)
(* Distributed transaction coordinator over three MySQL shards:            *)
(* the distributed lock manager (python/utils/lock_manager.py), the        *)
(* recovery log and checkpoint replay engine                               *)
(* (python/utils/recovery_manager.py) and the write/commit/replicate       *)
(* pipeline (python/gui/add_transaction.py, update_transaction.py).        *)
(***************************************************************************)
EXTENDS Integers, Sequences, FiniteSets, TLC

(***************************************************************************)
(* Bounds of the model.                                                    *)
(***************************************************************************)
MaxTime == 45          \* the clock stops advancing here (seconds)
TickStep == 15         \* seconds that pass in one clock step
MaxFailures == 1       \* number of shard crashes in one behaviour
MaxCrashes == 3        \* number of shard crashes in one behaviour of the checkpoint model
MaxDay == 1            \* last calendar day of a behaviour
MaxWrites == 2         \* writes begun or committed in one behaviour
MaxBegins == 3         \* begin buttons pressed in one behaviour of the lock model
MaxOutages == 4        \* crashes of shard 1 in one behaviour of the retry model
MaxLimit == 2          \* largest row limit asked of the view page

(***************************************************************************)
(* Program constants.                                                      *)
(***************************************************************************)
Nodes == {1, 2, 3}                 \* node_configs keys
Sess == {"A", "B"}                 \* application instances (current_node_id)
Resources == {"trans_1", "insert_trans"}   \* resource_id values
WriteLockTimeout == 30             \* timeout=30 of the write pages and tests
Timeouts == {0, WriteLockTimeout}  \* timeouts passed to acquire_lock
NoNode == 0
Central == 1                       \* the central node holds every row
max_retries == 3                   \* RecoveryManager.max_retries

VARIABLES
    up,         \* up[n]: shard n accepts connections
    now,        \* wall clock, seconds
    failures,   \* shard crashes so far
    lockTab,    \* lockTab[n]: rows of distributed_lock on shard n
    active,     \* active[s][r]: _active_locks of session s, a list of nodes
    lm,         \* lm[s]: the acquire_lock call in progress in session s
    holds,      \* holds[s][n][r]: acquire_lock succeeded and release not yet called
    takenOver,  \* takenOver[s][n][r]: s's row was deleted as stale by another session
    day,        \* calendar day (the %Y%m%d of the transaction hash)
    trans,      \* trans[n]: committed rows of the trans table on shard n
    recLog,     \* recLog[n]: recovery_log of shard n; log_id is the position
    ckptTab,    \* rows of recovery_checkpoints on node 1
    dr,         \* dr[p]: the drain cycle in progress in process p
    wr,         \* wr[p]: the commit/replication in progress in process p
    replayed,   \* statements the replay engine executed successfully, in order
    writes,     \* writes committed so far
    tx,         \* tx[p]: the write transaction of the page handlers of session p
    order,      \* order[p]: the steps of p's write transaction so far, in order
    mon,        \* the recovery check started by the liveness monitor (server_ping.py)
    snap,       \* snap[s][r]: the rows of r on the shard when s last called acquire_lock,
                \* whether that call returned True and whether s has released r since
    view,       \* view[p]: the Fetch Data handler of the view page of session p
    ping        \* the NodePinger thread: node_status and the nodes it found back online

lockVars == <<lockTab, active, lm, holds, takenOver>>
envVars == <<up, now, failures>>
recVars == <<day, trans, recLog, ckptTab, dr, wr, replayed, writes>>
pageVars == <<tx, order, mon, snap, view, ping>>
vars == <<up, now, failures, lockTab, active, lm, holds, takenOver,
          day, trans, recLog, ckptTab, dr, wr, replayed, writes, tx, order, mon, snap, view, ping>>

(***************************************************************************)
(* distributed_lock table and lock manager helpers.                        *)
(***************************************************************************)
\* lock_name = f"lock_{resource_id}"
lock_name(r) == <<"lock", r>>

\* SELECT locked_by, lock_time FROM distributed_lock WHERE lock_name = %s
select_lock(n, r) == {row \in lockTab[n] : row.lock_name = lock_name(r)}

\* lock_age = (datetime.now() - result['lock_time']).total_seconds(), in whole
\* seconds of the model clock; the real age is a fraction of a second more
lock_age(row) == now - row.lock_time

\* the staleness test dropped: no row is ever taken over
is_stale_never(row, timeout) == FALSE

\* if lock_age > timeout: the row is stale and may be taken over.  timeout is
\* a whole number, so the real age exceeds it once the whole seconds reach it
is_stale(row, timeout) == lock_age(row) >= timeout

\* elapsed counted in whole seconds only: zero at the first pass
timed_out_whole_seconds(start_time, timeout) == now - start_time > timeout

\* elapsed = time.time() - start_time; if elapsed > timeout.  start_time is
\* taken before the connection is opened, so elapsed is more than zero at
\* the first pass and exceeds timeout once the whole seconds reach it
timed_out(start_time, timeout) == now - start_time >= timeout

\* the holder comparison dropped: any row counts as this session's
is_ours_any(row, s) == TRUE

\* result['locked_by'] == self.current_node_id
is_ours(row, s) == row.locked_by = s

\* self._active_locks[resource_id].append(node)
track_append(s, r, n) == [active EXCEPT ![s][r] = Append(@, n)]

InSeq(x, q) == \E i \in 1..Len(q) : q[i] = x

\* if node not in self._active_locks[resource_id]: append(node)
track_once(s, r, n) ==
    IF InSeq(n, active[s][r]) THEN active ELSE track_append(s, r, n)

RECURSIVE seq_remove(_, _)
\* list.remove(x): drops the first occurrence of x
seq_remove(q, x) ==
    IF q = <<>> THEN <<>>
    ELSE IF Head(q) = x THEN Tail(q)
    ELSE <<Head(q)>> \o seq_remove(Tail(q), x)

LmIdle == [pc |-> "idle", res |-> "trans_1", node |-> NoNode, timeout |-> 0,
           start |-> 0, connOk |-> FALSE, result |-> FALSE]

(***************************************************************************)
(* acquire_lock(resource_id, node, timeout)                                *)
(***************************************************************************)
\* the call: start_time = time.time(); conn = self._get_connection(node)
acquire_lock_connect(s, r, n, t) ==
    /\ lm[s].pc = "idle"
    /\ lm' = [lm EXCEPT ![s] =
                IF up[n]
                THEN [pc |-> "loop", res |-> r, node |-> n, timeout |-> t,
                      start |-> now, connOk |-> TRUE, result |-> FALSE]
                ELSE [pc |-> "ret", res |-> r, node |-> n, timeout |-> t,
                      start |-> now, connOk |-> FALSE, result |-> FALSE]]
    /\ UNCHANGED <<lockTab, active, holds, takenOver>>

\* one pass of the while loop up to the INSERT
acquire_lock_loop(s) ==
    LET c == lm[s]
        rows == select_lock(c.node, c.res)
    IN
    /\ c.pc = "loop"
    /\ IF timed_out(c.start, c.timeout)
       THEN \* elapsed > timeout: return False
            /\ lm' = [lm EXCEPT ![s].pc = "ret", ![s].result = FALSE]
            /\ UNCHANGED <<lockTab, active, holds, takenOver>>
       ELSE IF ~(up[c.node] /\ c.connOk)
       THEN \* except Exception: fail fast
            /\ lm' = [lm EXCEPT ![s].pc = "ret", ![s].result = FALSE]
            /\ UNCHANGED <<lockTab, active, holds, takenOver>>
       ELSE IF rows = {}
       THEN \* result is None: go on to the INSERT
            /\ lm' = [lm EXCEPT ![s].pc = "insert"]
            /\ UNCHANGED <<lockTab, active, holds, takenOver>>
       ELSE \E row \in rows :
            IF is_ours(row, s)
            THEN \* already hold the lock: commit, track, return True
                 /\ active' = track_once(s, c.res, c.node)
                 /\ lm' = [lm EXCEPT ![s].pc = "ret", ![s].result = TRUE]
                 /\ holds' = [holds EXCEPT ![s][c.node][c.res] = TRUE]
                 /\ takenOver' = [takenOver EXCEPT ![s][c.node][c.res] = FALSE]
                 /\ UNCHANGED lockTab
            ELSE IF is_stale(row, c.timeout)
            THEN \* DELETE ... WHERE lock_name = %s AND locked_by = %s; continue
                 /\ lockTab' = [lockTab EXCEPT ![c.node] =
                        {x \in @ : ~(x.lock_name = row.lock_name
                                     /\ x.locked_by = row.locked_by)}]
                 /\ takenOver' = [takenOver EXCEPT ![row.locked_by][c.node][c.res] = TRUE]
                 /\ UNCHANGED <<active, lm, holds>>
            ELSE \* held by another active session: rollback, sleep, continue
                 UNCHANGED <<lockTab, active, lm, holds, takenOver>>

\* a connection error at the INSERT answered with "continue" instead of
\* "return False"
acquire_lock_insert_retry(s) ==
    LET c == lm[s] IN
    /\ c.pc = "insert"
    /\ IF ~(up[c.node] /\ c.connOk) \/ select_lock(c.node, c.res) # {}
       THEN /\ lm' = [lm EXCEPT ![s].pc = "loop"]
            /\ UNCHANGED <<lockTab, active, holds, takenOver>>
       ELSE /\ lockTab' = [lockTab EXCEPT ![c.node] = @ \cup
                    {[lock_name |-> lock_name(c.res), locked_by |-> s,
                      lock_time |-> now]}]
            /\ active' = track_append(s, c.res, c.node)
            /\ lm' = [lm EXCEPT ![s].pc = "ret", ![s].result = TRUE]
            /\ holds' = [holds EXCEPT ![s][c.node][c.res] = TRUE]
            /\ takenOver' = [takenOver EXCEPT ![s][c.node][c.res] = FALSE]

\* cursor.execute(insert_lock_sql); conn.commit()
acquire_lock_insert(s) ==
    LET c == lm[s] IN
    /\ c.pc = "insert"
    /\ IF ~(up[c.node] /\ c.connOk)
       THEN /\ lm' = [lm EXCEPT ![s].pc = "ret", ![s].result = FALSE]
            /\ UNCHANGED <<lockTab, active, holds, takenOver>>
       ELSE IF select_lock(c.node, c.res) # {}
       THEN \* the PRIMARY KEY rejects the row: IntegrityError (retry) or a
            \* lock-wait/deadlock error (generic Exception: return False)
            /\ \/ lm' = [lm EXCEPT ![s].pc = "loop"]
               \/ lm' = [lm EXCEPT ![s].pc = "ret", ![s].result = FALSE]
            /\ UNCHANGED <<lockTab, active, holds, takenOver>>
       ELSE /\ lockTab' = [lockTab EXCEPT ![c.node] = @ \cup
                    {[lock_name |-> lock_name(c.res), locked_by |-> s,
                      lock_time |-> now]}]
            /\ active' = track_append(s, c.res, c.node)
            /\ lm' = [lm EXCEPT ![s].pc = "ret", ![s].result = TRUE]
            /\ holds' = [holds EXCEPT ![s][c.node][c.res] = TRUE]
            /\ takenOver' = [takenOver EXCEPT ![s][c.node][c.res] = FALSE]

\* return of a direct call of acquire_lock (finally: close cursor and conn)
acquire_lock_return(s) ==
    LET c == lm[s] IN
    /\ c.pc = "ret"
    /\ lm' = [lm EXCEPT ![s] = LmIdle]
    /\ UNCHANGED <<lockTab, active, holds, takenOver>>

(***************************************************************************)
(* release_lock(resource_id, node)                                         *)
(***************************************************************************)
\* the DELETE of release_lock left out
delete_lock_none(n, r, s) == lockTab

\* DELETE FROM distributed_lock WHERE lock_name = %s AND locked_by = %s
delete_lock(n, r, s) ==
    [lockTab EXCEPT ![n] =
        {x \in @ : ~(x.lock_name = lock_name(r) /\ x.locked_by = s)}]

\* the new _active_locks after a successful release
untrack(s, r, n) ==
    IF InSeq(n, active[s][r])
    THEN [active EXCEPT ![s][r] = seq_remove(@, n)]
    ELSE active

\* the DELETE without "AND locked_by = %s"
release_lock_any_holder(s, r, n) ==
    /\ lm[s].pc = "idle"
    /\ holds' = [holds EXCEPT ![s][n][r] = FALSE]
    /\ takenOver' = [takenOver EXCEPT ![s][n][r] = FALSE]
    /\ IF up[n]
       THEN /\ lockTab' = [lockTab EXCEPT ![n] = @ \ select_lock(n, r)]
            /\ active' = untrack(s, r, n)
       ELSE UNCHANGED <<lockTab, active>>
    /\ UNCHANGED lm

release_lock(s, r, n) ==
    /\ lm[s].pc = "idle"
    /\ holds' = [holds EXCEPT ![s][n][r] = FALSE]
    /\ takenOver' = [takenOver EXCEPT ![s][n][r] = FALSE]
    /\ IF up[n]
       THEN /\ lockTab' = delete_lock(n, r, s)
            /\ active' = untrack(s, r, n)
       ELSE \* connection failed: return False
            UNCHANGED <<lockTab, active>>
    /\ UNCHANGED lm

(***************************************************************************)
(* release_all_locks()                                                     *)
(***************************************************************************)
\* the DELETE left out: every row stays
delete_all_none(tab, s) == tab

\* DELETE FROM distributed_lock WHERE locked_by = %s
delete_all(tab, s) == {x \in tab : x.locked_by # s}

\* for node_num in self.node_configs.keys(): the DELETE on every node that
\* accepts the connection; self._active_locks = {}; the call then waits at
\* its return with result = (total_released > 0)
release_all_locks(s) ==
    /\ lm[s].pc = "idle"
    /\ lockTab' = [n \in Nodes |-> IF up[n] THEN delete_all(lockTab[n], s)
                                   ELSE lockTab[n]]
    /\ active' = [active EXCEPT ![s] = [r \in Resources |-> <<>>]]
    /\ lm' = [lm EXCEPT ![s] =
                [LmIdle EXCEPT !.pc = "all_ret",
                               !.result = \E n \in Nodes :
                                    up[n] /\ delete_all(lockTab[n], s) # lockTab[n]]]
    /\ holds' = [holds EXCEPT ![s] = [n \in Nodes |-> [r \in Resources |-> FALSE]]]
    /\ takenOver' = [takenOver EXCEPT ![s] = [n \in Nodes |-> [r \in Resources |-> FALSE]]]

\* release_all_locks returns
release_all_return(s) ==
    /\ lm[s].pc = "all_ret"
    /\ lm' = [lm EXCEPT ![s] = LmIdle]
    /\ UNCHANGED <<lockTab, active, holds, takenOver>>

(***************************************************************************)
(* Environment: the clock and shard crashes.                               *)
(***************************************************************************)
Tick ==
    /\ now + TickStep <= MaxTime
    /\ now' = now + TickStep
    /\ UNCHANGED <<up, failures>>

\* a shard stops: every connection to it is lost
ShardDownUpTo(n, bound) ==
    /\ up[n]
    /\ failures < bound
    /\ up' = [up EXCEPT ![n] = FALSE]
    /\ failures' = failures + 1
    /\ UNCHANGED now

ShardDown(n) == ShardDownUpTo(n, MaxFailures)

ShardUp(n) ==
    /\ ~up[n]
    /\ up' = [up EXCEPT ![n] = TRUE]
    /\ UNCHANGED <<now, failures>>

\* connections of calls in progress that a crash of n breaks
break_lm(n) ==
    [s \in Sess |-> IF lm[s].node = n /\ lm[s].pc \in {"loop", "insert"}
                    THEN [lm[s] EXCEPT !.connOk = FALSE] ELSE lm[s]]

(***************************************************************************)
(* The trans table and the SQL statements the pages build.                 *)
(***************************************************************************)
\* UPDATE trans SET amount = 20 WHERE trans_id = 1   (row of account 3)
UPD1 == [op |-> "UPDATE", trans_id |-> 1, account_id |-> 3, amount |-> 20]
\* INSERT INTO trans (trans_id, account_id, amount) VALUES (2, 2, 5)
INS2 == [op |-> "INSERT", trans_id |-> 2, account_id |-> 2, amount |-> 5]
Stmts == {UPD1, INS2}

\* get_node_for_account: even accounts live on node 2, odd ones on node 3
get_node_for_account(account_id) == IF account_id % 2 = 0 THEN 2 ELSE 3

\* MySQL error 1062: duplicate entry for the primary key trans_id
dup_key(tab, q) ==
    q.op = "INSERT" /\ \E x \in tab : x.trans_id = q.trans_id

\* cursor.execute(sql); conn.commit() on a table without a key collision
exec_sql(tab, q) ==
    IF q.op = "INSERT"
    THEN tab \cup {[trans_id |-> q.trans_id, account_id |-> q.account_id,
                    amount |-> q.amount]}
    ELSE {IF x.trans_id = q.trans_id THEN [x EXCEPT !.amount = q.amount] ELSE x
          : x \in tab}

\* the first two tests swapped: the partition node before node 1
choose_primary_partition_first(status, partition_node) ==
    IF status[partition_node] THEN partition_node
    ELSE IF status[Central] THEN Central
    ELSE IF \E n \in Nodes : status[n]
         THEN CHOOSE n \in Nodes : status[n] /\ \A m \in Nodes : status[m] => n <= m
         ELSE NoNode

\* Priority: Node 1 > partition node > any available node (0: none is live)
choose_primary(status, partition_node) ==
    IF status[Central] THEN Central
    ELSE IF status[partition_node] THEN partition_node
    ELSE IF \E n \in Nodes : status[n]
         THEN CHOOSE n \in Nodes : status[n] /\ \A m \in Nodes : status[m] => n <= m
         ELSE NoNode

\* the second test dropped: a partition primary replicates to node 1 only
replication_targets_central_only(primary_node, partition_node) ==
    IF primary_node = Central THEN <<partition_node>> ELSE <<Central>>

\* replication targets of the commit handlers, in the order they are tried
replication_targets(primary_node, partition_node) ==
    IF primary_node = Central
    THEN IF partition_node # Central THEN <<partition_node>> ELSE <<>>
    ELSE <<Central>> \o
         (IF primary_node # partition_node /\ partition_node # Central
          THEN <<partition_node>> ELSE <<>>)

(***************************************************************************)
(* recovery_log: log_backup and its cross-backup.                          *)
(***************************************************************************)
\* sha256 of f"{target}_{source}_{sql}_{%Y%m%d}": equal exactly for equal inputs
generate_transaction_hash(target_node, source_node, sql, d) ==
    <<target_node, source_node, sql, d>>

new_log_row(target_node, source_node, sql, h, msg) ==
    [target_node |-> target_node, source_node |-> source_node,
     sql_statement |-> sql, transaction_hash |-> h, status |-> "PENDING",
     retry_count |-> 0, error_message |-> msg]

\* SELECT COUNT(*) ... WHERE transaction_hash = %s AND status IN ('PENDING','COMPLETED')
already_logged(log, n, h) ==
    \E i \in 1..Len(log[n]) :
        /\ log[n][i].transaction_hash = h
        /\ log[n][i].status \in {"PENDING", "COMPLETED"}

\* for node in [1, 2, 3]: first node that is neither source, target nor current
backup_node(target_node, source_node, cur) ==
    LET c == {n \in Nodes : n # source_node /\ n # target_node /\ n # cur}
    IN IF c = {} THEN NoNode ELSE CHOOSE n \in c : \A m \in c : n <= m

WrIdle == [pc |-> "idle", stmt |-> UPD1, source |-> NoNode, targets |-> <<>>,
           target |-> NoNode, hash |-> <<>>]

\* the statement is committed on the primary; replication comes next
commit_primary(p, q) ==
    LET primary_node == choose_primary(up, get_node_for_account(q.account_id)) IN
    /\ wr[p].pc = "idle"
    /\ dr[p].pc = "idle"
    /\ writes < MaxWrites
    /\ primary_node # NoNode
    /\ ~dup_key(trans[primary_node], q)
    /\ trans' = [trans EXCEPT ![primary_node] = exec_sql(@, q)]
    /\ writes' = writes + 1
    /\ wr' = [wr EXCEPT ![p] =
            [pc |-> "replicate", stmt |-> q, source |-> primary_node,
             targets |-> replication_targets(primary_node,
                                get_node_for_account(q.account_id)),
             target |-> NoNode, hash |-> <<>>]]
    /\ UNCHANGED <<day, recLog, ckptTab, dr, replayed>>

\* the statement meets the row lock of another session's open transaction
\* on node n and runs into the lock wait timeout
row_blocked(n, q, p) ==
    \E s \in Sess \ {p} :
        /\ tx[s].pc = "open" /\ tx[s].connOk
        /\ tx[s].primary = n
        /\ tx[s].stmt.trans_id = q.trans_id

\* replicate_transaction(query, source_node, target_node) up to the except
replicate_transaction(p) ==
    LET w == wr[p] IN
    /\ w.pc = "replicate"
    /\ IF w.targets = <<>>
       THEN /\ wr' = [wr EXCEPT ![p] = WrIdle]
            /\ UNCHANGED trans
       ELSE LET t == Head(w.targets) IN
            IF up[t] /\ ~dup_key(trans[t], w.stmt) /\ ~row_blocked(t, w.stmt, p)
            THEN /\ trans' = [trans EXCEPT ![t] = exec_sql(@, w.stmt)]
                 /\ wr' = [wr EXCEPT ![p].targets = Tail(@)]
            ELSE \* except Exception: log the failure for recovery
                 /\ wr' = [wr EXCEPT ![p].pc = "lb_check", ![p].target = t,
                                     ![p].targets = Tail(@)]
                 /\ UNCHANGED trans
    /\ UNCHANGED <<day, recLog, ckptTab, dr, replayed, writes>>

\* log_backup: hash, connect to the manager's own node, duplicate check
log_backup_check(p) ==
    LET w == wr[p]
        h == generate_transaction_hash(w.target, w.source, w.stmt, day)
    IN
    /\ w.pc = "lb_check"
    /\ IF ~up[w.source]
       THEN \* except Error: return False
            wr' = [wr EXCEPT ![p].pc = "replicate"]
       ELSE IF already_logged(recLog, w.source, h)
       THEN \* Transaction already logged: return True
            wr' = [wr EXCEPT ![p].pc = "replicate"]
       ELSE wr' = [wr EXCEPT ![p].pc = "lb_insert", ![p].hash = h]
    /\ UNCHANGED <<day, trans, recLog, ckptTab, dr, replayed, writes>>

\* log_backup: INSERT INTO recovery_log ...; commit
log_backup_insert(p) ==
    LET w == wr[p] IN
    /\ w.pc = "lb_insert"
    /\ IF ~up[w.source]
       THEN /\ wr' = [wr EXCEPT ![p].pc = "replicate"]
            /\ UNCHANGED recLog
       ELSE /\ recLog' = [recLog EXCEPT ![w.source] = Append(@,
                    new_log_row(w.target, w.source, w.stmt, w.hash, "NULL"))]
            /\ wr' = [wr EXCEPT ![p].pc = "lb_backup"]
    /\ UNCHANGED <<day, trans, ckptTab, dr, replayed, writes>>

\* the copy to the third node left out
store_cross_backup_none(p) ==
    /\ wr[p].pc = "lb_backup"
    /\ wr' = [wr EXCEPT ![p].pc = "replicate"]
    /\ UNCHANGED <<day, trans, recLog, ckptTab, dr, replayed, writes>>

\* _store_cross_backup: one attempt to copy the entry to a third node
store_cross_backup(p) ==
    LET w == wr[p]
        b == backup_node(w.target, w.source, w.source)
    IN
    /\ w.pc = "lb_backup"
    /\ IF b # NoNode /\ up[b]
       THEN recLog' = [recLog EXCEPT ![b] = Append(@,
                new_log_row(w.target, w.source, w.stmt, w.hash, "CROSS_BACKUP"))]
       ELSE UNCHANGED recLog
    /\ wr' = [wr EXCEPT ![p].pc = "replicate"]
    /\ UNCHANGED <<day, trans, ckptTab, dr, replayed, writes>>

\* _store_cross_backup run to completion on the log tables
cross_backup_done(log, target_node, source_node, cur, q, h) ==
    LET b == backup_node(target_node, source_node, cur) IN
    IF b # NoNode /\ up[b]
    THEN [log EXCEPT ![b] = Append(@,
            new_log_row(target_node, source_node, q, h, "CROSS_BACKUP"))]
    ELSE log

\* log_backup(target_node, source_node, sql) of the manager of node cur,
\* run to completion
log_backup_done(log, cur, target_node, source_node, q) ==
    LET h == generate_transaction_hash(target_node, source_node, q, day) IN
    IF ~up[cur] \/ already_logged(log, cur, h) THEN log
    ELSE cross_backup_done(
            [log EXCEPT ![cur] = Append(@,
                new_log_row(target_node, source_node, q, h, "NULL"))],
            target_node, source_node, cur, q, h)

\* one replication target of a committed write, run to completion
replicate_done(st, p, source_node, t, q) ==
    IF up[t] /\ ~dup_key(st.trans[t], q) /\ ~row_blocked(t, q, p)
    THEN [st EXCEPT !.trans[t] = exec_sql(@, q)]
    ELSE [st EXCEPT !.log = log_backup_done(@, source_node, t, source_node, q)]

RECURSIVE replicate_all(_, _, _, _, _)
replicate_all(st, p, source_node, targets, q) ==
    IF targets = <<>> THEN st
    ELSE replicate_all(replicate_done(st, p, source_node, Head(targets), q),
                       p, source_node, Tail(targets), q)

\* a whole write: commit on the primary, replication, failure logging
write_done(p, q) ==
    LET partition_node == get_node_for_account(q.account_id)
        primary_node == choose_primary(up, partition_node)
    IN
    /\ dr[p].pc = "idle"
    /\ wr[p].pc = "idle"
    /\ writes < MaxWrites
    /\ primary_node # NoNode
    /\ ~dup_key(trans[primary_node], q)
    /\ LET st == replicate_all(
                [trans |-> [trans EXCEPT ![primary_node] = exec_sql(@, q)],
                 log |-> recLog],
                p, primary_node, replication_targets(primary_node, partition_node), q)
       IN /\ trans' = st.trans
          /\ recLog' = st.log
    /\ writes' = writes + 1
    /\ UNCHANGED <<day, ckptTab, dr, wr, replayed>>

(***************************************************************************)
(* recovery_checkpoints on node 1 and the drain cycle                      *)
(* (execute_global_recovery: RecoveryManager(node1_config, 1)).            *)
(***************************************************************************)
current_node_id == Central

\* os.getpid() of the process the session runs in
os_getpid(p) == IF p = "A" THEN 101 ELSE 102

ckpt_has(tab, k) == \E x \in tab : x.node_id = k

\* the stored last_processed_log_id of node_id k (dflt when the row is missing)
ckpt_value(tab, k, dflt) ==
    IF ckpt_has(tab, k) THEN (CHOOSE x \in tab : x.node_id = k).last ELSE dflt

\* INSERT IGNORE INTO recovery_checkpoints (node_id, last_processed_log_id)
insert_ignore(tab, k, v) ==
    IF ckpt_has(tab, k) THEN tab ELSE tab \cup {[node_id |-> k, last |-> v]}

\* UPDATE recovery_checkpoints SET last_processed_log_id = v WHERE node_id = k
ckpt_update(tab, k, v) ==
    {IF x.node_id = k THEN [x EXCEPT !.last = v] ELSE x : x \in tab}

\* the WHERE clause of the claiming UPDATE without the "= -1" test
lock_is_free_always(tab) == ckpt_has(tab, 0)

\* WHERE node_id = 0 AND last_processed_log_id = -1
lock_is_free(tab) == ckpt_has(tab, 0) /\ ckpt_value(tab, 0, 0) = -1

\* SELECT COUNT(*) FROM recovery_log WHERE status = 'PENDING'  (node 1)
count_pending(n) ==
    Cardinality({i \in 1..Len(recLog[n]) : recLog[n][i].status = "PENDING"})

RECURSIVE pending_since(_, _, _)
\* PENDING rows of node n with log_id > checkpoint, ORDER BY log_id ASC,
\* each with its log_id and found_in_node
pending_since(n, checkpoint, i) ==
    IF i > Len(recLog[n]) THEN <<>>
    ELSE (IF i > checkpoint /\ recLog[n][i].status = "PENDING"
          THEN <<[log_id |-> i, found_in_node |-> n, row |-> recLog[n][i]]>>
          ELSE <<>>) \o pending_since(n, checkpoint, i + 1)

get_new_recovery_logs_since_checkpoint(n, checkpoint) ==
    pending_since(n, checkpoint, 1)

NoMark == [kind |-> "none", status |-> "PENDING", msg |-> "NULL"]

DrIdle == [pc |-> "idle", cps |-> [n \in Nodes |-> 0], node |-> NoNode,
           logs |-> <<>>, i |-> 0, cur |-> 0, last |-> 0,
           mark |-> NoMark, result |-> "none"]

\* after node n: the next node of "for node_id in [1, 2, 3]" or the release
next_node(d) ==
    IF d.node < 3
    THEN [d EXCEPT !.pc = "fetch", !.node = d.node + 1, !.logs = <<>>,
                   !.i = 0, !.mark = NoMark, !.result = "none"]
    ELSE [d EXCEPT !.pc = "release", !.logs = <<>>, !.i = 0,
                   !.mark = NoMark, !.result = "none"]

\* execute_global_recovery(): the call, the quick count of PENDING rows on
\* node 1 (zero ends the cycle) and create_checkpoint_table_if_not_exists
execute_global_recovery(p) ==
    /\ dr[p].pc = "idle"
    /\ wr[p].pc = "idle"
    /\ IF up[Central] /\ count_pending(Central) = 0
       THEN UNCHANGED <<dr, ckptTab>>
       ELSE /\ dr' = [dr EXCEPT ![p] = [DrIdle EXCEPT !.pc = "acquire"]]
            /\ IF up[Central]
               THEN ckptTab' = insert_ignore(insert_ignore(insert_ignore(
                                    ckptTab, 1, 0), 2, 0), 3, 0)
               ELSE UNCHANGED ckptTab
    /\ UNCHANGED <<day, trans, recLog, wr, replayed, writes>>

acquire_global_recovery_lock(p) ==
    /\ dr[p].pc = "acquire"
    /\ IF ~up[Central]
       THEN \* except Error: return False
            /\ dr' = [dr EXCEPT ![p] = DrIdle]
            /\ UNCHANGED ckptTab
       ELSE LET tab == insert_ignore(ckptTab, 0, -1) IN
            IF lock_is_free(tab)
            THEN /\ ckptTab' = ckpt_update(tab, 0, os_getpid(p))
                 /\ dr' = [dr EXCEPT ![p].pc = "read"]
            ELSE \* rowcount = 0: another process is running recovery
                 /\ ckptTab' = tab
                 /\ dr' = [dr EXCEPT ![p] = DrIdle]
    /\ UNCHANGED <<day, trans, recLog, wr, replayed, writes>>

get_global_checkpoints(p) ==
    /\ dr[p].pc = "read"
    /\ dr' = [dr EXCEPT ![p].pc = "fetch", ![p].node = 1,
                ![p].cps = IF up[Central]
                           THEN [n \in Nodes |-> ckpt_value(ckptTab, n, 0)]
                           ELSE [n \in Nodes |-> 0]]
    /\ UNCHANGED <<day, trans, recLog, ckptTab, wr, replayed, writes>>

\* current_checkpoint = checkpoints[node_id]; new_logs = get_new_recovery_logs...
drain_fetch(p) ==
    LET d == dr[p]
        logs == IF up[d.node]
                THEN get_new_recovery_logs_since_checkpoint(d.node, d.cps[d.node])
                ELSE <<>>
    IN
    /\ d.pc = "fetch"
    /\ dr' = [dr EXCEPT ![p] =
            IF logs = <<>> THEN next_node(d)
            ELSE [d EXCEPT !.pc = "attempt", !.logs = logs, !.i = 1,
                           !.cur = d.cps[d.node], !.last = d.cps[d.node]]]
    /\ UNCHANGED <<day, trans, recLog, ckptTab, wr, replayed, writes>>

\* result in ['success', 'recovered', 'skipped']
counts_as_success(result) == result \in {"success", "recovered", "skipped"}

\* the bookkeeping of the for loop after _attempt_recovery_cross_node returned
after_attempt(d, result) ==
    LET log == d.logs[d.i]
        last == IF counts_as_success(result) /\ log.log_id = d.last + 1
                THEN log.log_id ELSE d.last
    IN [d EXCEPT !.last = last, !.mark = NoMark, !.result = "none",
                 !.i = d.i + 1,
                 !.pc = IF d.i < Len(d.logs) THEN "attempt" ELSE "update"]

\* _attempt_recovery_cross_node(log) up to the status update in the log's node
attempt_recovery_cross_node(p) ==
    LET d == dr[p]
        log == d.logs[d.i]
        q == log.row.sql_statement
    IN
    /\ d.pc = "attempt"
    /\ IF log.row.retry_count >= max_retries
       THEN /\ dr' = [dr EXCEPT ![p].pc = "mark", ![p].result = "failed",
                        ![p].mark = [kind |-> "status", status |-> "FAILED",
                                     msg |-> "Max retries exceeded"]]
            /\ UNCHANGED <<trans, replayed>>
       ELSE IF log.row.target_node # current_node_id
       THEN \* not the target node: return 'skipped'
            /\ dr' = [dr EXCEPT ![p] = after_attempt(d, "skipped")]
            /\ UNCHANGED <<trans, replayed>>
       ELSE IF ~up[current_node_id]
       THEN \* connection Error: increment the retry count
            /\ dr' = [dr EXCEPT ![p].pc = "mark", ![p].result = "failed",
                        ![p].mark = [kind |-> "retry", status |-> "PENDING",
                                     msg |-> "recovery attempt failed"]]
            /\ UNCHANGED <<trans, replayed>>
       ELSE IF \E i \in 1..Len(recLog[current_node_id]) :
                   /\ recLog[current_node_id][i].transaction_hash = log.row.transaction_hash
                   /\ recLog[current_node_id][i].status = "COMPLETED"
       THEN /\ dr' = [dr EXCEPT ![p].pc = "mark", ![p].result = "skipped",
                        ![p].mark = [kind |-> "status", status |-> "COMPLETED",
                                     msg |-> "Duplicate transaction - already processed"]]
            /\ UNCHANGED <<trans, replayed>>
       ELSE IF dup_key(trans[current_node_id], q)
       THEN \* errno 1062
            /\ dr' = [dr EXCEPT ![p].pc = "mark", ![p].result = "skipped",
                        ![p].mark = [kind |-> "status", status |-> "COMPLETED",
                                     msg |-> "Transaction already exists"]]
            /\ UNCHANGED <<trans, replayed>>
       ELSE /\ trans' = [trans EXCEPT ![current_node_id] = exec_sql(@, q)]
            /\ replayed' = Append(replayed,
                    [hash |-> log.row.transaction_hash, node |-> log.found_in_node,
                     log_id |-> log.log_id, on |-> current_node_id])
            /\ dr' = [dr EXCEPT ![p].pc = "mark", ![p].result = "recovered",
                        ![p].mark = [kind |-> "status", status |-> "COMPLETED",
                                     msg |-> "Cross-node recovery successful"]]
    /\ UNCHANGED <<day, recLog, ckptTab, wr, writes>>

\* an UPDATE that matches no row
apply_mark_none(log, n, log_id, m) == log

\* _mark_recovery_status_in_node / _increment_retry_count_in_node
apply_mark(log, n, log_id, m) ==
    IF log_id > Len(log[n]) THEN log
    ELSE IF m.kind = "status"
    THEN [log EXCEPT ![n][log_id].status = m.status,
                     ![n][log_id].error_message = m.msg]
    ELSE [log EXCEPT ![n][log_id].retry_count = @ + 1,
                     ![n][log_id].error_message = m.msg]

\* the status update in the node the log was found in, then the loop bookkeeping
mark_recovery_status_in_node(p) ==
    LET d == dr[p]
        log == d.logs[d.i]
    IN
    /\ d.pc = "mark"
    /\ IF up[log.found_in_node]
       THEN recLog' = apply_mark(recLog, log.found_in_node, log.log_id, d.mark)
       ELSE \* except Error: only printed
            UNCHANGED recLog
    /\ dr' = [dr EXCEPT ![p] = after_attempt(d, d.result)]
    /\ UNCHANGED <<day, trans, ckptTab, wr, replayed, writes>>

\* if last_consecutive_success > current_checkpoint: update_checkpoint(...)
update_checkpoint(p) ==
    LET d == dr[p] IN
    /\ d.pc = "update"
    /\ IF d.last > d.cur /\ up[Central]
       THEN ckptTab' = ckpt_update(ckptTab, d.node, d.last)
       ELSE UNCHANGED ckptTab
    /\ dr' = [dr EXCEPT ![p] = next_node(d)]
    /\ UNCHANGED <<day, trans, recLog, wr, replayed, writes>>

\* finally: release_global_recovery_lock()
release_global_recovery_lock(p) ==
    /\ dr[p].pc = "release"
    /\ IF up[Central] /\ ckpt_value(ckptTab, 0, -1) = os_getpid(p)
       THEN ckptTab' = ckpt_update(ckptTab, 0, -1)
       ELSE UNCHANGED ckptTab
    /\ dr' = [dr EXCEPT ![p] = DrIdle]
    /\ UNCHANGED <<day, trans, recLog, wr, replayed, writes>>

\* midnight passes
NextDay ==
    /\ day < MaxDay
    /\ day' = day + 1
    /\ UNCHANGED <<trans, recLog, ckptTab, dr, wr, replayed, writes>>

(***************************************************************************)
(* The recovery check of the liveness monitor (server_ping.py): a node      *)
(* that answers the ping again gets a RecoveryManager of its own, which     *)
(* replays the PENDING entries that target it.                              *)
(***************************************************************************)
MonIdle == [pc |-> "idle", node |-> NoNode, logs |-> <<>>, i |-> 0,
            mark |-> NoMark, result |-> "none"]

RECURSIVE pending_for(_, _, _)
\* SELECT ... WHERE status = 'PENDING' AND target_node = %s on check node c;
\* rows of one node come back in log_id order (their timestamps ascend)
pending_for(c, cur, i) ==
    IF i > Len(recLog[c]) THEN <<>>
    ELSE (IF recLog[c][i].status = "PENDING" /\ recLog[c][i].target_node = cur
          THEN <<[log_id |-> i, found_in_node |-> c, row |-> recLog[c][i]]>>
          ELSE <<>>) \o pending_for(c, cur, i + 1)

\* for check_node_id in [1, 2, 3]: an unreachable node is skipped
all_pending_logs(cur) ==
    (IF up[1] THEN pending_for(1, cur, 1) ELSE <<>>)
    \o (IF up[2] THEN pending_for(2, cur, 1) ELSE <<>>)
    \o (IF up[3] THEN pending_for(3, cur, 1) ELSE <<>>)

\* the log is the first of its transaction_hash in the list
first_of_hash(logs, i) ==
    \A j \in 1..(i - 1) : logs[j].row.transaction_hash # logs[i].row.transaction_hash

RECURSIVE unique_logs(_, _)
unique_logs(logs, i) ==
    IF i > Len(logs) THEN <<>>
    ELSE (IF first_of_hash(logs, i) THEN <<logs[i]>> ELSE <<>>)
         \o unique_logs(logs, i + 1)

RECURSIVE mark_duplicates(_, _, _)
\* every later log of a hash already seen is marked COMPLETED where it was found
mark_duplicates(log, logs, i) ==
    IF i > Len(logs) THEN log
    ELSE mark_duplicates(
            IF first_of_hash(logs, i) THEN log
            ELSE apply_mark(log, logs[i].found_in_node, logs[i].log_id,
                            [kind |-> "status", status |-> "COMPLETED",
                             msg |-> "Duplicate transaction - skipped during deduplication"]),
            logs, i + 1)

\* _check_recovery_for_node(node_id) -> check_and_recover_pending_logs(): the
\* scan of the three nodes and the deduplication; no mutex is taken
check_and_recover_pending_logs(n) ==
    LET logs == all_pending_logs(n)
        unique == unique_logs(logs, 1)
    IN
    /\ mon.pc = "idle"
    /\ recLog' = mark_duplicates(recLog, logs, 1)
    /\ mon' = IF unique = <<>> THEN MonIdle
              ELSE [MonIdle EXCEPT !.pc = "attempt", !.node = n,
                                   !.logs = unique, !.i = 1]
    /\ UNCHANGED <<day, trans, ckptTab, dr, wr, replayed, writes>>

\* the for loop over unique_logs after one log is done
mon_next(m) ==
    IF m.i < Len(m.logs)
    THEN [m EXCEPT !.pc = "attempt", !.i = m.i + 1, !.mark = NoMark,
                   !.result = "none"]
    ELSE MonIdle

\* _attempt_recovery_cross_node(log) of the monitor's manager, whose
\* current_node_id is the node that came back
mon_attempt_recovery(m) ==
    LET log == m.logs[m.i]
        q == log.row.sql_statement
        cur == m.node
    IN
    IF log.row.retry_count >= max_retries
    THEN [exec |-> FALSE, result |-> "failed",
          mark |-> [kind |-> "status", status |-> "FAILED",
                    msg |-> "Max retries exceeded"]]
    ELSE IF ~up[cur]
    THEN [exec |-> FALSE, result |-> "failed",
          mark |-> [kind |-> "retry", status |-> "PENDING",
                    msg |-> "recovery attempt failed"]]
    ELSE IF \E i \in 1..Len(recLog[cur]) :
                /\ recLog[cur][i].transaction_hash = log.row.transaction_hash
                /\ recLog[cur][i].status = "COMPLETED"
    THEN [exec |-> FALSE, result |-> "skipped",
          mark |-> [kind |-> "status", status |-> "COMPLETED",
                    msg |-> "Duplicate transaction - already processed"]]
    ELSE IF dup_key(trans[cur], q)
    THEN [exec |-> FALSE, result |-> "skipped",
          mark |-> [kind |-> "status", status |-> "COMPLETED",
                    msg |-> "Transaction already exists"]]
    ELSE [exec |-> TRUE, result |-> "recovered",
          mark |-> [kind |-> "status", status |-> "COMPLETED",
                    msg |-> "Cross-node recovery successful"]]

\* result = self._attempt_recovery_cross_node(log), up to the status update
mon_attempt ==
    LET log == mon.logs[mon.i]
        out == mon_attempt_recovery(mon)
    IN
    /\ mon.pc = "attempt"
    /\ IF out.exec
       THEN /\ trans' = [trans EXCEPT ![mon.node] = exec_sql(@, log.row.sql_statement)]
            /\ replayed' = Append(replayed,
                    [hash |-> log.row.transaction_hash, node |-> log.found_in_node,
                     log_id |-> log.log_id, on |-> mon.node])
       ELSE UNCHANGED <<trans, replayed>>
    /\ mon' = [mon EXCEPT !.pc = "mark", !.mark = out.mark, !.result = out.result]
    /\ UNCHANGED <<day, recLog, ckptTab, dr, wr, writes>>

\* the status update in the node the log was found in; time.sleep(0.1)
mon_mark ==
    LET log == mon.logs[mon.i] IN
    /\ mon.pc = "mark"
    /\ IF up[log.found_in_node]
       THEN recLog' = apply_mark(recLog, log.found_in_node, log.log_id, mon.mark)
       ELSE UNCHANGED recLog
    /\ mon' = mon_next(mon)
    /\ UNCHANGED <<day, trans, ckptTab, dr, wr, replayed, writes>>

(***************************************************************************)
(* NodePinger (python/utils/server_ping.py): the background thread.        *)
(***************************************************************************)
\* the pinger after the first round of its thread, made at start-up with
\* every node online and no recovery log
PingStarted == [node_status |-> [n \in Nodes |-> TRUE], recovered |-> <<>>]

\* the nodes of "for node in [1, 2, 3]" that previous_status shows offline
\* and the new node_status online
came_back(previous_status, node_status) ==
    SelectSeq(<<1, 2, 3>>, LAMBDA n : ~previous_status[n] /\ node_status[n])

\* ping_all_nodes(): check_node for every node, then the loop over the nodes
\* that came back
ping_all_nodes ==
    /\ ping.recovered = <<>>
    /\ mon.pc = "idle"
    /\ ping' = [node_status |-> up, recovered |-> came_back(ping.node_status, up)]

\* _check_recovery_for_node(node) of the next node that came back: the scan
\* of check_and_recover_pending_logs()
check_recovery_for_node ==
    /\ ping.recovered # <<>>
    /\ ping' = [ping EXCEPT !.recovered = Tail(@)]
    /\ check_and_recover_pending_logs(Head(ping.recovered))

(***************************************************************************)
(* The write pages (add_transaction.py, update_transaction.py): begin,     *)
(* commit and rollback handlers.                                           *)
(***************************************************************************)
Pages == {"add", "update"}

\* resource_id = "insert_trans" / f"trans_{trans_id}"
page_resource(page) == IF page = "add" THEN "insert_trans" ELSE "trans_1"

\* the amount typed into the form by the user of session p
form_amount(p) == IF p = "A" THEN 20 ELSE 30

\* the account typed into the add form
form_account == 2

\* the trans_id typed into the update form
form_trans_id == 1

insert_query(next_trans_id, account_id, amount) ==
    [op |-> "INSERT", trans_id |-> next_trans_id, account_id |-> account_id,
     amount |-> amount]

update_query(trans_id, account_id, amount) ==
    [op |-> "UPDATE", trans_id |-> trans_id, account_id |-> account_id,
     amount |-> amount]

TxIdle == [pc |-> "idle", page |-> "add", res |-> "insert_trans",
           status |-> [n \in Nodes |-> FALSE], start |-> 0,
           idx |-> 0, nstart |-> -1, ntimeout |-> 0, acquired |-> <<>>,
           failed |-> <<>>, primary |-> NoNode, stmt |-> UPD1, connOk |-> FALSE]

\* sessions that pressed the button and are still in the drain cycle
in_begin == {q \in Sess : tx[q].pc = "drain"}

\* the button: execute_global_recovery() comes first
begin_write_upto(p, page, bound) ==
    /\ tx[p].pc = "idle"
    /\ writes + Cardinality(in_begin) < bound
    /\ execute_global_recovery(p)
    /\ tx' = [tx EXCEPT ![p] = [TxIdle EXCEPT !.pc = "drain", !.page = page,
                                             !.res = page_resource(page)]]
    /\ UNCHANGED <<lockTab, active>>

begin_write(p, page) == begin_write_upto(p, page, MaxWrites)

\* node_status = get_status() (update page);
\* acquire_multi_node_lock(resource_id, nodes=[1, 2, 3], timeout=30): start_time
multi_start(p) ==
    /\ tx[p].pc = "drain"
    /\ dr[p].pc = "idle"
    /\ tx' = [tx EXCEPT ![p].pc = "lock", ![p].start = now, ![p].idx = 1,
                        ![p].status = IF tx[p].page = "update" THEN up ELSE @]
    /\ writes' = writes + 1
    /\ UNCHANGED <<lockTab, active>>

\* remaining_timeout = timeout - (time.time() - start_time)
remaining_timeout(t) == WriteLockTimeout - (now - t.start)


new_lock_row(r, s) == [lock_name |-> lock_name(r), locked_by |-> s, lock_time |-> now]

\* the table of node n with the row of r replaced by row
put_lock(n, r, row) ==
    [lockTab EXCEPT ![n] = {x \in @ : x.lock_name # lock_name(r)} \cup {row}]

\* one node of the for loop: acquire_lock(resource_id, node, int(remaining_timeout))
\* run until it returns or has to wait
multi_try(p) ==
    LET t == tx[p]
        n == t.idx
        first == t.nstart = -1
        timeout == IF first THEN remaining_timeout(t) ELSE t.ntimeout
        start_time == IF first THEN now ELSE t.nstart
        rows == select_lock(n, t.res)
        got == [t EXCEPT !.idx = n + 1, !.nstart = -1, !.ntimeout = 0,
                         !.connOk = FALSE, !.acquired = Append(t.acquired, n)]
        lost == [t EXCEPT !.idx = n + 1, !.nstart = -1, !.ntimeout = 0,
                          !.connOk = FALSE, !.failed = Append(t.failed, n)]
    IN
    /\ t.pc = "lock"
    /\ n <= 3
    /\ ~first \/ remaining_timeout(t) > 0
    /\ IF ~up[n] \/ (~first /\ ~t.connOk) \/ timed_out(start_time, timeout)
       THEN \* no connection, or elapsed > timeout: return False
            /\ tx' = [tx EXCEPT ![p] = lost]
            /\ UNCHANGED lockTab
       ELSE IF rows = {}
       THEN /\ lockTab' = put_lock(n, t.res, new_lock_row(t.res, p))
            /\ tx' = [tx EXCEPT ![p] = got]
       ELSE LET row == CHOOSE x \in rows : TRUE IN
            IF is_ours(row, p)
            THEN /\ tx' = [tx EXCEPT ![p] = got]
                 /\ UNCHANGED lockTab
            ELSE IF is_stale(row, timeout)
            THEN \* DELETE the stale row, next iteration INSERTs
                 /\ lockTab' = put_lock(n, t.res, new_lock_row(t.res, p))
                 /\ tx' = [tx EXCEPT ![p] = got]
            ELSE \* held by another session: poll every 0.1 s
                 /\ first
                 /\ tx' = [tx EXCEPT ![p].nstart = now, ![p].ntimeout = timeout,
                                     ![p].connOk = TRUE]
                 /\ UNCHANGED lockTab
    /\ UNCHANGED active

RECURSIVE sync_rows(_, _, _, _)
\* INSERT ... ON DUPLICATE KEY UPDATE of the lock record on every reachable
\* node of failed_nodes
sync_rows(tab, r, row, failed_nodes) ==
    IF failed_nodes = <<>> THEN tab
    ELSE LET f == Head(failed_nodes)
             t2 == IF up[f]
                   THEN [tab EXCEPT ![f] = {x \in @ : x.lock_name # lock_name(r)} \cup {row}]
                   ELSE tab
         IN sync_rows(t2, r, row, Tail(failed_nodes))

RECURSIVE reachable(_)
reachable(q) ==
    IF q = <<>> THEN <<>>
    ELSE (IF up[Head(q)] THEN <<Head(q)>> ELSE <<>>) \o reachable(Tail(q))

\* success only when every node granted the lock
lock_acquired_all(t) == Len(t.acquired) = 3

\* if acquired_nodes: ... return True
lock_acquired(t) == t.acquired # <<>>

\* the end of the for loop: the result and _sync_locks_to_recovered_nodes
multi_done(p) ==
    LET t == tx[p]
        source_node == t.acquired[1]
        rows == select_lock(source_node, t.res)
        syncs == t.failed # <<>> /\ up[source_node] /\ rows # {}
    IN
    /\ t.pc = "lock"
    /\ t.idx > 3 \/ (t.nstart = -1 /\ remaining_timeout(t) <= 0)
    /\ IF lock_acquired(t)
       THEN /\ lockTab' = IF syncs
                          THEN sync_rows(lockTab, t.res, CHOOSE x \in rows : TRUE, t.failed)
                          ELSE lockTab
            /\ active' = [active EXCEPT ![p][t.res] =
                            t.acquired \o (IF syncs THEN reachable(t.failed) ELSE <<>>)]
            /\ tx' = [tx EXCEPT ![p].pc = "locked"]
       ELSE \* lock_acquired is False: st.stop()
            /\ tx' = [tx EXCEPT ![p] = TxIdle]
            /\ UNCHANGED <<lockTab, active>>

\* the loop left after its first node
release_first_node_only(p, r) ==
    [n \in Nodes |->
        IF up[n] /\ n = 1
        THEN {x \in lockTab[n] : ~(x.lock_name = lock_name(r) /\ x.locked_by = p)}
        ELSE lockTab[n]]

\* release_multi_node_lock(resource_id, nodes=[1, 2, 3]) on the lock tables
release_multi_node_lock(p, r) ==
    [n \in Nodes |->
        IF up[n]
        THEN {x \in lockTab[n] : ~(x.lock_name = lock_name(r) /\ x.locked_by = p)}
        ELSE lockTab[n]]

Max(S) == CHOOSE x \in S : \A y \in S : y <= x

\* id allocation needs node 1 or both of nodes 2 and 3
id_quorum == up[Central] \/ (up[2] /\ up[3])

\* get_max_trans_id_multi_node()['max_trans_id']: highest trans_id of the
\* reachable nodes
get_max_trans_id_multi_node ==
    Max({0} \cup {x.trans_id : x \in UNION {trans[n] : n \in {m \in Nodes : up[m]}}})

\* the search of the update page: node 1 first, then nodes 2 and 3
\* (0: the row is on none of the nodes searched)
search_account(status, trans_id) ==
    LET has(n) == status[n] /\ up[n] /\ \E x \in trans[n] : x.trans_id = trans_id
        acct(n) == (CHOOSE x \in trans[n] : x.trans_id = trans_id).account_id
    IN IF has(1) THEN acct(1) ELSE IF has(2) THEN acct(2)
       ELSE IF has(3) THEN acct(3) ELSE 0

\* st.stop(): the script ends, nothing is released
st_stop(p) ==
    /\ tx' = [tx EXCEPT ![p] = TxIdle]
    /\ UNCHANGED <<lockTab, active>>

\* except Exception: release_multi_node_lock(resource_id, nodes=[1, 2, 3])
release_and_end(p) ==
    /\ tx' = [tx EXCEPT ![p] = TxIdle]
    /\ lockTab' = release_multi_node_lock(p, tx[p].res)
    /\ active' = [active EXCEPT ![p][tx[p].res] = <<>>]

\* START TRANSACTION and the statement on a dedicated connection to the
\* primary, left uncommitted
open_transaction(p, primary_node, q) ==
    IF ~up[primary_node] \/ dup_key(trans[primary_node], q)
       \/ row_blocked(primary_node, q, p)
    THEN release_and_end(p)
    ELSE /\ tx' = [tx EXCEPT ![p].pc = "open", ![p].primary = primary_node,
                             ![p].stmt = q, ![p].connOk = TRUE]
         /\ UNCHANGED <<lockTab, active>>

\* the rest of the begin handler of the add page, after the lock; the
\* node_status read from the pinger is taken to be the current state of
\* the shards
add_execute(p) ==
    LET partition_node == get_node_for_account(form_account)
        primary_node == choose_primary(up, partition_node)
        next_trans_id == get_max_trans_id_multi_node + 1
    IN
    IF primary_node = NoNode \/ ~id_quorum
    THEN st_stop(p)
    ELSE open_transaction(p, primary_node,
            insert_query(next_trans_id, form_account, form_amount(p)))

\* the rest of the begin handler of the update page, after the lock
update_execute(p) ==
    LET status == tx[p].status
        account_id == search_account(status, form_trans_id)
        primary_node == choose_primary(status, get_node_for_account(account_id))
    IN
    IF account_id = 0 \/ primary_node = NoNode
    THEN st_stop(p)
    ELSE open_transaction(p, primary_node,
            update_query(form_trans_id, account_id, form_amount(p)))

page_execute(p) ==
    /\ tx[p].pc = "locked"
    /\ IF tx[p].page = "add" THEN add_execute(p) ELSE update_execute(p)

\* conn.commit() on the primary succeeds
commit_ok(p) == tx[p].connOk /\ up[tx[p].primary]

\* the commit button when conn.commit() raises
commit_failed(p) ==
    IF tx[p].page = "update"
    THEN \* except Exception as commit_error ... finally: release
         release_and_end(p)
    ELSE \* raise commit_error: "Commit process failed", nothing is released
         UNCHANGED <<tx, lockTab, active>>

\* the commit button up to the first replication call
page_commit(p) ==
    LET t == tx[p] IN
    /\ t.pc = "open"
    /\ IF commit_ok(p)
       THEN /\ trans' = [trans EXCEPT ![t.primary] = exec_sql(@, t.stmt)]
            /\ wr' = [wr EXCEPT ![p] =
                    [pc |-> "replicate", stmt |-> t.stmt, source |-> t.primary,
                     targets |-> replication_targets(t.primary,
                                    get_node_for_account(t.stmt.account_id)),
                     target |-> NoNode, hash |-> <<>>]]
            /\ tx' = [tx EXCEPT ![p].pc = "replicating"]
            /\ UNCHANGED <<lockTab, active>>
       ELSE /\ commit_failed(p)
            /\ UNCHANGED <<trans, wr>>

\* the lock may be released: every replication call has returned
release_ready_any(p) == TRUE

release_ready(p) == wr[p].pc = "idle"

\* finally: release_multi_node_lock(resource_id, nodes=[1, 2, 3])
page_release(p) ==
    /\ tx[p].pc = "replicating"
    /\ release_ready(p)
    /\ release_and_end(p)

\* the commit button run to completion: commit on the primary, every
\* replication call with its failure logging, release of the lock
commit_handler(p) ==
    LET t == tx[p] IN
    /\ t.pc = "open"
    /\ IF commit_ok(p)
       THEN LET st == replicate_all(
                    [trans |-> [trans EXCEPT ![t.primary] = exec_sql(@, t.stmt)],
                     log |-> recLog],
                    p, t.primary,
                    replication_targets(t.primary,
                        get_node_for_account(t.stmt.account_id)), t.stmt)
            IN /\ trans' = st.trans
               /\ recLog' = st.log
               /\ release_and_end(p)
       ELSE /\ commit_failed(p)
            /\ UNCHANGED <<trans, recLog>>

\* conn.rollback() on the primary succeeds
rollback_ok(p) == tx[p].connOk /\ up[tx[p].primary]

\* the rollback button
page_rollback(p) ==
    /\ tx[p].pc = "open"
    /\ IF rollback_ok(p)
       THEN release_and_end(p)
       ELSE \* conn.rollback() raises: "Rollback failed"
            UNCHANGED <<tx, lockTab, active>>

\* the acquire_lock call of p sleeps between two polls: the row belongs to
\* another session, is not stale yet, and the timeout has not passed
polling(p) ==
    LET t == tx[p]
        rows == select_lock(t.idx, t.res)
    IN
    /\ t.pc = "lock" /\ t.idx <= 3 /\ t.nstart # -1
    /\ up[t.idx] /\ t.connOk /\ ~timed_out(t.nstart, t.ntimeout)
    /\ \E row \in rows : ~is_ours(row, p) /\ ~is_stale(row, t.ntimeout)

\* a handler of p is running: its steps take milliseconds, the clock of the
\* model counts in steps of TickStep seconds
running_handler(p) ==
    /\ tx[p].pc \in {"drain", "lock", "locked", "replicating"}
    /\ ~polling(p)

\* time passes while every session waits for its user or for a lock
page_tick == Tick /\ \A p \in Sess : ~running_handler(p)

\* connections of open transactions and of polling acquire_lock calls that a
\* crash of n breaks
break_tx(n) ==
    [s \in Sess |-> IF \/ tx[s].pc = "open" /\ tx[s].primary = n
                       \/ tx[s].pc = "lock" /\ tx[s].idx = n
                    THEN [tx[s] EXCEPT !.connOk = FALSE] ELSE tx[s]]

(***************************************************************************)
(* The view page (python/gui/view_transactions.py): the Fetch Data handler  *)
(* with no account filter.                                                 *)
(***************************************************************************)
ViewIdle == [pc |-> "idle", status |-> [n \in Nodes |-> FALSE], limit |-> 0,
             kind |-> "none", rows |-> <<>>]

\* the orders in which a SELECT without ORDER BY may return the rows of a table
fetch_data(tab) ==
    {q \in [1..Cardinality(tab) -> tab] :
        \A i, j \in 1..Cardinality(tab) : i # j => q[i] # q[j]}

RECURSIVE drop_from(_, _)
drop_from(q, seen) ==
    IF q = <<>> THEN <<>>
    ELSE IF Head(q).trans_id \in seen THEN drop_from(Tail(q), seen)
    ELSE <<Head(q)>> \o drop_from(Tail(q), seen \cup {Head(q).trans_id})

\* keep='last': the row of the shard queried last wins
drop_duplicates_last(q) ==
    LET rev(x) == [i \in 1..Len(x) |-> x[Len(x) + 1 - i]]
    IN rev(drop_from(rev(q), {}))

\* combined_data.drop_duplicates(subset=['trans_id'], keep='first')
drop_duplicates(q) == drop_from(q, {})

RECURSIVE insert_sorted(_, _)
insert_sorted(q, x) ==
    IF q = <<>> THEN <<x>>
    ELSE IF x.trans_id < Head(q).trans_id THEN <<x>> \o q
    ELSE <<Head(q)>> \o insert_sorted(Tail(q), x)

RECURSIVE sort_values(_)
\* combined_data.sort_values('trans_id')
sort_values(q) ==
    IF q = <<>> THEN <<>>
    ELSE insert_sorted(sort_values(Tail(q)), Head(q))

\* .head(limit)
head(q, limit) == SubSeq(q, 1, IF limit < Len(q) THEN limit ELSE Len(q))

\* the nodes the handler queries under the snapshot status: node 1 when it is
\* shown online, otherwise "for node in [2, 3]: if node in online_nodes"
query_nodes(status) ==
    IF status[Central] THEN <<Central>>
    ELSE SelectSeq(<<2, 3>>, LAMBDA n : status[n])

\* the page run: node_status = pinger.ping_all_nodes(), then the button
\* handler starts with execute_global_recovery()
view_begin(p) ==
    /\ view[p].pc = "idle"
    /\ execute_global_recovery(p)
    /\ view' = [view EXCEPT ![p] = [ViewIdle EXCEPT !.pc = "drain", !.status = up]]

\* the rest of the handler once the drain has returned: the unavailable
\* message, or the fetches, pd.concat, drop_duplicates, sort_values and head;
\* a fetch from a node that does not answer raises and "Error retrieving
\* data" is shown
view_fetch(p, limit) ==
    /\ view[p].pc = "drain"
    /\ dr[p].pc = "idle"
    /\ LET status == view[p].status
           nodes == query_nodes(status)
           done(kind, rows) ==
               view' = [view EXCEPT ![p] = [pc |-> "idle", status |-> status,
                             limit |-> limit, kind |-> kind, rows |-> rows]]
       IN IF \A n \in Nodes : ~status[n]
          THEN done("unavailable", <<>>)
          ELSE IF \E i \in 1..Len(nodes) : ~up[nodes[i]]
          THEN done("error", <<>>)
          ELSE \E o1 \in fetch_data(trans[1]), o2 \in fetch_data(trans[2]),
                  o3 \in fetch_data(trans[3]) :
                  LET combined_data ==
                          IF status[Central] THEN o1
                          ELSE (IF status[2] THEN o2 ELSE <<>>)
                               \o (IF status[3] THEN o3 ELSE <<>>)
                  IN done("rows",
                          IF combined_data = <<>> THEN <<>>
                          ELSE head(sort_values(drop_duplicates(combined_data)),
                                    limit))

(***************************************************************************)
(* The lock manager called directly (case3_concurrent_writes.py): sessions  *)
(* acquire and release one resource on one shard.                          *)
(***************************************************************************)
LockNodes == {1}
LockResources == {"trans_1"}

InitEnv ==
    /\ up = [n \in Nodes |-> TRUE]
    /\ now = 0
    /\ failures = 0

InitLockVars ==
    /\ lockTab = [n \in Nodes |-> {}]
    /\ active = [s \in Sess |-> [r \in Resources |-> <<>>]]
    /\ lm = [s \in Sess |-> LmIdle]
    /\ holds = [s \in Sess |-> [n \in Nodes |-> [r \in Resources |-> FALSE]]]
    /\ takenOver = [s \in Sess |-> [n \in Nodes |-> [r \in Resources |-> FALSE]]]

\* the row of trans_id 1 (account 3) is on the central node and on node 3
InitTrans ==
    [n \in Nodes |-> IF n \in {Central, 3}
                     THEN {[trans_id |-> 1, account_id |-> 3, amount |-> 10]}
                     ELSE {}]

InitRecVars ==
    /\ day = 0
    /\ trans = InitTrans
    /\ recLog = [n \in Nodes |-> <<>>]
    /\ ckptTab = {}
    /\ dr = [p \in Sess |-> DrIdle]
    /\ wr = [p \in Sess |-> WrIdle]
    /\ replayed = <<>>
    /\ writes = 0

InitPageVars ==
    /\ tx = [p \in Sess |-> TxIdle]
    /\ order = [p \in Sess |-> <<>>]
    /\ mon = MonIdle
    /\ snap = [s \in Sess |-> [r \in Resources |-> [before |-> {}, ok |-> FALSE, done |-> FALSE]]]
    /\ view = [p \in Sess |-> ViewIdle]
    /\ ping = PingStarted

InitLock == InitEnv /\ InitLockVars /\ InitRecVars /\ InitPageVars

LockCall ==
    \E s \in Sess, r \in LockResources, n \in LockNodes, t \in Timeouts :
        acquire_lock_connect(s, r, n, t) /\ UNCHANGED envVars /\ UNCHANGED recVars /\ UNCHANGED pageVars
LockLoop == \E s \in Sess : acquire_lock_loop(s) /\ UNCHANGED envVars /\ UNCHANGED recVars /\ UNCHANGED pageVars
LockInsert == \E s \in Sess : acquire_lock_insert(s) /\ UNCHANGED envVars /\ UNCHANGED recVars /\ UNCHANGED pageVars
LockReturn == \E s \in Sess : acquire_lock_return(s) /\ UNCHANGED envVars /\ UNCHANGED recVars /\ UNCHANGED pageVars
LockRelease ==
    \E s \in Sess, r \in LockResources, n \in LockNodes :
        release_lock(s, r, n) /\ UNCHANGED envVars /\ UNCHANGED recVars /\ UNCHANGED pageVars
LockTick == Tick /\ UNCHANGED lockVars /\ UNCHANGED recVars /\ UNCHANGED pageVars
LockDown ==
    \E n \in LockNodes :
        /\ ShardDown(n)
        /\ lm' = break_lm(n)
        /\ UNCHANGED <<lockTab, active, holds, takenOver>>
        /\ UNCHANGED recVars /\ UNCHANGED pageVars
LockUp == \E n \in LockNodes : ShardUp(n) /\ UNCHANGED lockVars /\ UNCHANGED recVars /\ UNCHANGED pageVars

NextLock ==
    \/ LockCall
    \/ LockLoop
    \/ LockInsert
    \/ LockReturn
    \/ LockRelease
    \/ LockTick
    \/ LockDown
    \/ LockUp

SpecLock == InitLock /\ [][NextLock]_vars

(***************************************************************************)
(* The release model: the lock manager model with every release_lock call  *)
(* remembered in order[s]: its arguments, whether the shard was reached,    *)
(* whether another session held the row, and a bit that changes with every *)
(* call.  The clock stands still: no row becomes stale.                    *)
(***************************************************************************)
RelFrame == UNCHANGED envVars /\ UNCHANGED recVars /\ UNCHANGED <<tx, mon, snap, view, ping>>

\* the bit of s's last release_lock call
call_bit(s) == IF order[s] = <<>> THEN FALSE ELSE order[s][1].bit

RelCall ==
    \E s \in Sess, r \in LockResources, n \in LockNodes, t \in Timeouts :
        acquire_lock_connect(s, r, n, t) /\ UNCHANGED envVars /\ UNCHANGED recVars /\ UNCHANGED pageVars
RelRelease ==
    \E s \in Sess, r \in LockResources, n \in LockNodes :
        /\ release_lock(s, r, n)
        /\ order' = [order EXCEPT ![s] =
                        <<[res |-> r, node |-> n, reached |-> up[n],
                           other |-> \E x \in select_lock(n, r) : x.locked_by # s,
                           bit |-> ~call_bit(s)]>>]
        /\ RelFrame

NextRelease ==
    \/ RelCall
    \/ LockLoop
    \/ LockInsert
    \/ LockReturn
    \/ RelRelease
    \/ LockDown
    \/ LockUp

SpecRelease == InitLock /\ [][NextRelease]_vars

(***************************************************************************)
(* The crashed-holder model: session A acquires a resource on shard 1 and   *)
(* is never heard of again; session B calls acquire_lock and release_lock   *)
(* on the same shard, which stays reachable.  The clock advances while B    *)
(* is between calls or sleeps between two polls of a fresh row.             *)
(***************************************************************************)
Holder == "A"
Taker == "B"

StaleFrame == UNCHANGED envVars /\ UNCHANGED recVars /\ UNCHANGED pageVars

\* the acquire_lock call of s sleeps between two polls
lock_waiting(s) ==
    LET c == lm[s] IN
    /\ c.pc = "loop"
    /\ ~timed_out(c.start, c.timeout)
    /\ \E row \in select_lock(c.node, c.res) :
            ~is_ours(row, s) /\ ~is_stale(row, c.timeout)

StaleHolderCall ==
    \E r \in LockResources :
        /\ ~holds[Holder][1][r]
        /\ acquire_lock_connect(Holder, r, 1, WriteLockTimeout)
        /\ StaleFrame
StaleHolderLoop == acquire_lock_loop(Holder) /\ StaleFrame
StaleHolderInsert == acquire_lock_insert(Holder) /\ StaleFrame
StaleHolderReturn == acquire_lock_return(Holder) /\ StaleFrame
StaleCall ==
    \E r \in LockResources, t \in Timeouts :
        acquire_lock_connect(Taker, r, 1, t) /\ StaleFrame
StaleLoop == acquire_lock_loop(Taker) /\ StaleFrame
StaleInsert == acquire_lock_insert(Taker) /\ StaleFrame
StaleReturn == acquire_lock_return(Taker) /\ StaleFrame
StaleRelease ==
    \E r \in LockResources : release_lock(Taker, r, 1) /\ StaleFrame
StaleTick ==
    /\ Tick
    /\ \A s \in Sess : lm[s].pc = "idle" \/ lock_waiting(s)
    /\ UNCHANGED lockVars /\ UNCHANGED recVars /\ UNCHANGED pageVars

NextStale ==
    \/ StaleHolderCall
    \/ StaleHolderLoop
    \/ StaleHolderInsert
    \/ StaleHolderReturn
    \/ StaleCall
    \/ StaleLoop
    \/ StaleInsert
    \/ StaleReturn
    \/ StaleRelease
    \/ StaleTick

\* a call that has started runs on: the loop, the INSERT and the return of
\* the taker are not postponed for ever
SpecStale ==
    /\ InitLock
    /\ [][NextStale]_vars
    /\ WF_vars(StaleLoop)
    /\ WF_vars(StaleInsert)
    /\ WF_vars(StaleReturn)

(***************************************************************************)
(* The acquire/release pair model: session B calls acquire_lock and         *)
(* release_lock on shard 1, and what the table held for the resource when   *)
(* the acquire was called is remembered.  Session A acquires resources      *)
(* between B's pairs and never releases, so that B finds rows of A, fresh   *)
(* or stale, and rows of its own.                                           *)
(***************************************************************************)
PairFrame == UNCHANGED envVars /\ UNCHANGED recVars /\ UNCHANGED <<tx, order, mon, view, ping>>

PairHolderCall ==
    \E r \in Resources :
        /\ ~holds[Holder][1][r]
        /\ lm[Taker].pc = "idle"
        /\ \A r2 \in Resources : ~holds[Taker][1][r2]
        /\ acquire_lock_connect(Holder, r, 1, WriteLockTimeout)
        /\ StaleFrame
PairCall ==
    \E r \in Resources, t \in Timeouts :
        /\ lm[Holder].pc = "idle"
        /\ acquire_lock_connect(Taker, r, 1, t)
        /\ snap' = [snap EXCEPT ![Taker][r] =
                        [before |-> select_lock(1, r), ok |-> FALSE, done |-> FALSE]]
        /\ PairFrame
PairRelease ==
    \E r \in Resources :
        /\ release_lock(Taker, r, 1)
        /\ snap' = [snap EXCEPT ![Taker][r].done = holds[Taker][1][r]]
        /\ PairFrame
PairReturn ==
    /\ acquire_lock_return(Taker)
    /\ snap' = [snap EXCEPT ![Taker][lm[Taker].res].ok = lm[Taker].result]
    /\ PairFrame

NextPair ==
    \/ PairHolderCall
    \/ StaleHolderLoop
    \/ StaleHolderInsert
    \/ StaleHolderReturn
    \/ PairCall
    \/ StaleLoop
    \/ StaleInsert
    \/ PairReturn
    \/ PairRelease
    \/ StaleTick

SpecPair == InitLock /\ [][NextPair]_vars

(***************************************************************************)
(* The lock manager with cleanup: sessions acquire resources on several     *)
(* shards one call at a time and release everything with                    *)
(* release_all_locks (db_manager.cleanup, cleanup_locks).                   *)
(***************************************************************************)
AllNodes == {1, 2}

AllFrame == UNCHANGED envVars /\ UNCHANGED recVars /\ UNCHANGED pageVars

AllCall ==
    \E s \in Sess, r \in Resources, n \in AllNodes :
        acquire_lock_connect(s, r, n, WriteLockTimeout) /\ AllFrame
AllLoop == \E s \in Sess : acquire_lock_loop(s) /\ AllFrame
AllInsert == \E s \in Sess : acquire_lock_insert(s) /\ AllFrame
AllReturn == \E s \in Sess : acquire_lock_return(s) /\ AllFrame
AllRelease == \E s \in Sess : release_all_locks(s) /\ AllFrame
AllReleaseReturn == \E s \in Sess : release_all_return(s) /\ AllFrame
AllDown ==
    \E n \in AllNodes :
        /\ ShardDown(n)
        /\ lm' = break_lm(n)
        /\ UNCHANGED <<lockTab, active, holds, takenOver>>
        /\ UNCHANGED recVars /\ UNCHANGED pageVars
AllUp == \E n \in AllNodes : ShardUp(n) /\ UNCHANGED lockVars /\ UNCHANGED recVars /\ UNCHANGED pageVars

NextAll ==
    \/ AllCall
    \/ AllLoop
    \/ AllInsert
    \/ AllReturn
    \/ AllRelease
    \/ AllReleaseReturn
    \/ AllDown
    \/ AllUp

SpecAll == InitLock /\ [][NextAll]_vars

(***************************************************************************)
(* The recovery model: processes commit writes and replicate them          *)
(* (replicate_transaction), log failed replications and run drain cycles   *)
(* while shards crash and come back.                                       *)
(***************************************************************************)
InitRec == InitEnv /\ InitLockVars /\ InitRecVars /\ InitPageVars

RecFrame == UNCHANGED envVars /\ UNCHANGED lockVars /\ UNCHANGED pageVars

RecWrite == \E p \in Sess, q \in Stmts : write_done(p, q) /\ RecFrame
RecBegin == \E p \in Sess : execute_global_recovery(p) /\ RecFrame
RecAcquire == \E p \in Sess : acquire_global_recovery_lock(p) /\ RecFrame
RecRead == \E p \in Sess : get_global_checkpoints(p) /\ RecFrame
RecFetch == \E p \in Sess : drain_fetch(p) /\ RecFrame
RecAttempt == \E p \in Sess : attempt_recovery_cross_node(p) /\ RecFrame
RecMark == \E p \in Sess : mark_recovery_status_in_node(p) /\ RecFrame
RecUpdate == \E p \in Sess : update_checkpoint(p) /\ RecFrame
RecRelease == \E p \in Sess : release_global_recovery_lock(p) /\ RecFrame
RecDown == \E n \in Nodes : ShardDown(n) /\ UNCHANGED recVars /\ UNCHANGED pageVars /\ UNCHANGED lockVars
RecUp ==
    \E n \in Nodes : ShardUp(n) /\ UNCHANGED recVars /\ UNCHANGED pageVars /\ UNCHANGED lockVars

NextRec ==
    \/ RecWrite
    \/ RecBegin
    \/ RecAcquire
    \/ RecRead
    \/ RecFetch
    \/ RecAttempt
    \/ RecMark
    \/ RecUpdate
    \/ RecRelease
    \/ RecDown
    \/ RecUp

SpecRec == InitRec /\ [][NextRec]_vars

(***************************************************************************)
(* The replay model with both entry points: the drain of the write pages    *)
(* and the recovery check of the liveness monitor.                         *)
(***************************************************************************)
MonFrame == UNCHANGED envVars /\ UNCHANGED lockVars /\ UNCHANGED <<tx, order, snap, view, ping>>

MonCheck == \E n \in Nodes : up[n] /\ check_and_recover_pending_logs(n) /\ MonFrame
MonAttempt == mon_attempt /\ MonFrame
MonMark == mon_mark /\ MonFrame

NextMon ==
    \/ RecWrite
    \/ RecBegin
    \/ RecAcquire
    \/ RecRead
    \/ RecFetch
    \/ RecAttempt
    \/ RecMark
    \/ RecUpdate
    \/ RecRelease
    \/ RecDown
    \/ RecUp
    \/ MonCheck
    \/ MonAttempt
    \/ MonMark

SpecMon == InitRec /\ [][NextMon]_vars

(***************************************************************************)
(* The pinger model: writes are committed and replicated while shards      *)
(* crash and come back, and the pinger thread makes its rounds.            *)
(***************************************************************************)
PingRound ==
    /\ ping_all_nodes
    /\ UNCHANGED envVars /\ UNCHANGED lockVars /\ UNCHANGED recVars
    /\ UNCHANGED <<tx, order, mon, snap, view>>
PingRecovery ==
    /\ check_recovery_for_node
    /\ UNCHANGED envVars /\ UNCHANGED lockVars /\ UNCHANGED <<tx, order, snap, view>>

NextPing ==
    \/ RecWrite
    \/ PingRound
    \/ PingRecovery
    \/ MonAttempt
    \/ MonMark
    \/ RecDown
    \/ RecUp

SpecPing == InitRec /\ [][NextPing]_vars

(***************************************************************************)
(* The convergence model: two different updates of the row trans_id 1 are  *)
(* committed and replicated while a shard crashes and comes back; the      *)
(* drain of the write pages and the recovery check of the pinger replay    *)
(* what was logged.                                                        *)
(***************************************************************************)
\* a second update of the row of UPD1, with another amount
UPD1_later == [UPD1 EXCEPT !.amount = 30]

CvWrite == \E p \in Sess, q \in {UPD1, UPD1_later} : write_done(p, q) /\ RecFrame

NextConverge ==
    \/ CvWrite
    \/ RecBegin
    \/ RecAcquire
    \/ RecRead
    \/ RecFetch
    \/ RecAttempt
    \/ RecMark
    \/ RecUpdate
    \/ RecRelease
    \/ PingRound
    \/ PingRecovery
    \/ MonAttempt
    \/ MonMark
    \/ RecDown
    \/ RecUp

SpecConverge == InitRec /\ [][NextConverge]_vars

(***************************************************************************)
(* The checkpoint-advance model: the recovery model, with order[p] keeping *)
(* what the for loop of p's drain cycle got back for each entry of the     *)
(* node it is working on.                                                  *)
(***************************************************************************)
AdvFrame == UNCHANGED envVars /\ UNCHANGED lockVars /\ UNCHANGED <<tx, mon, snap, view, ping>>

\* the entry of the loop and what _attempt_recovery_cross_node did with it
loop_result(d, result, attempted) ==
    [log_id |-> d.logs[d.i].log_id, result |-> result, attempted |-> attempted]

AdvWrite == \E p \in Sess, q \in Stmts : write_done(p, q) /\ AdvFrame /\ UNCHANGED order
AdvBegin == \E p \in Sess : execute_global_recovery(p) /\ AdvFrame /\ UNCHANGED order
AdvAcquire == \E p \in Sess : acquire_global_recovery_lock(p) /\ AdvFrame /\ UNCHANGED order
AdvRead == \E p \in Sess : get_global_checkpoints(p) /\ AdvFrame /\ UNCHANGED order
AdvFetch ==
    \E p \in Sess :
        /\ drain_fetch(p)
        /\ order' = [order EXCEPT ![p] = <<>>]
        /\ AdvFrame
AdvAttempt ==
    \E p \in Sess :
        /\ attempt_recovery_cross_node(p)
        /\ order' = IF dr'[p].pc = "mark" THEN order
                    ELSE [order EXCEPT ![p] =
                            Append(@, loop_result(dr[p], "skipped", FALSE))]
        /\ AdvFrame
AdvMark ==
    \E p \in Sess :
        /\ mark_recovery_status_in_node(p)
        /\ order' = [order EXCEPT ![p] =
                        Append(@, loop_result(dr[p], dr[p].result,
                                              dr[p].mark.kind = "status"
                                              /\ dr[p].mark.status = "COMPLETED"))]
        /\ AdvFrame
AdvUpdate == \E p \in Sess : update_checkpoint(p) /\ AdvFrame /\ UNCHANGED order
AdvRelease == \E p \in Sess : release_global_recovery_lock(p) /\ AdvFrame /\ UNCHANGED order

NextAdvance ==
    \/ AdvWrite
    \/ AdvBegin
    \/ AdvAcquire
    \/ AdvRead
    \/ AdvFetch
    \/ AdvAttempt
    \/ AdvMark
    \/ AdvUpdate
    \/ AdvRelease
    \/ RecDown
    \/ RecUp

SpecAdvance == InitRec /\ [][NextAdvance]_vars

(***************************************************************************)
(* The failure-logging model: two processes commit writes and replicate    *)
(* them step by step, so that their log_backup calls can interleave.       *)
(***************************************************************************)
InitLog == InitEnv /\ InitLockVars /\ InitRecVars /\ InitPageVars

LogCommit == \E p \in Sess, q \in Stmts : commit_primary(p, q) /\ RecFrame
LogReplicate == \E p \in Sess : replicate_transaction(p) /\ RecFrame
LogCheck == \E p \in Sess : log_backup_check(p) /\ RecFrame
LogInsert == \E p \in Sess : log_backup_insert(p) /\ RecFrame
LogCrossBackup == \E p \in Sess : store_cross_backup(p) /\ RecFrame
LogNextDay == NextDay /\ RecFrame
LogDown == \E n \in Nodes : ShardDown(n) /\ UNCHANGED recVars /\ UNCHANGED pageVars /\ UNCHANGED lockVars
LogUp == \E n \in Nodes : ShardUp(n) /\ UNCHANGED recVars /\ UNCHANGED pageVars /\ UNCHANGED lockVars

NextLog ==
    \/ LogCommit
    \/ LogReplicate
    \/ LogCheck
    \/ LogInsert
    \/ LogCrossBackup
    \/ LogNextDay
    \/ LogDown
    \/ LogUp

SpecLog == InitLog /\ [][NextLog]_vars

(***************************************************************************)
(* The cross-backup model: the logging model on one day, with one crash    *)
(* more than MaxFailures, so that the target and the backup shard can be   *)
(* down at the same time and come back between two log_backup calls.       *)
(***************************************************************************)
BkDown ==
    \E n \in Nodes :
        ShardDownUpTo(n, MaxFailures + 1) /\ UNCHANGED recVars /\ UNCHANGED pageVars /\ UNCHANGED lockVars

NextBackup ==
    \/ LogCommit
    \/ LogReplicate
    \/ LogCheck
    \/ LogInsert
    \/ LogCrossBackup
    \/ BkDown
    \/ LogUp

SpecBackup == InitLog /\ [][NextBackup]_vars

(***************************************************************************)
(* The checkpoint model: one session that writes and drains, and shards    *)
(* that crash up to MaxCrashes times.                                      *)
(***************************************************************************)
InitCkpt == InitEnv /\ InitLockVars /\ InitRecVars /\ InitPageVars

Drainer == "A"

CkWrite == \E q \in Stmts : write_done(Drainer, q) /\ RecFrame
CkBegin == execute_global_recovery(Drainer) /\ RecFrame
CkAcquire == acquire_global_recovery_lock(Drainer) /\ RecFrame
CkRead == get_global_checkpoints(Drainer) /\ RecFrame
CkFetch == drain_fetch(Drainer) /\ RecFrame
CkAttempt == attempt_recovery_cross_node(Drainer) /\ RecFrame
CkMark == mark_recovery_status_in_node(Drainer) /\ RecFrame
CkUpdate == update_checkpoint(Drainer) /\ RecFrame
CkRelease == release_global_recovery_lock(Drainer) /\ RecFrame
CkDown ==
    \E n \in Nodes :
        ShardDownUpTo(n, MaxCrashes) /\ UNCHANGED recVars /\ UNCHANGED pageVars /\ UNCHANGED lockVars
CkUp == \E n \in Nodes : ShardUp(n) /\ UNCHANGED recVars /\ UNCHANGED pageVars /\ UNCHANGED lockVars

NextCkpt ==
    \/ CkWrite
    \/ CkBegin
    \/ CkAcquire
    \/ CkRead
    \/ CkFetch
    \/ CkAttempt
    \/ CkMark
    \/ CkUpdate
    \/ CkRelease
    \/ CkDown
    \/ CkUp

SpecCkpt == InitCkpt /\ [][NextCkpt]_vars

(***************************************************************************)
(* The retry model: one statement is written while shard 1 is down, and     *)
(* the drain of one session and the recovery check of the monitor replay    *)
(* its recovery entries while shard 1 crashes and comes back.               *)
(***************************************************************************)
RtWrite == write_done(Drainer, UPD1) /\ RecFrame
RtBegin == execute_global_recovery(Drainer) /\ RecFrame
RtAcquire == acquire_global_recovery_lock(Drainer) /\ RecFrame
RtRead == get_global_checkpoints(Drainer) /\ RecFrame
RtFetch == drain_fetch(Drainer) /\ RecFrame
RtAttempt == attempt_recovery_cross_node(Drainer) /\ RecFrame
RtMark == mark_recovery_status_in_node(Drainer) /\ RecFrame
RtUpdate == update_checkpoint(Drainer) /\ RecFrame
RtRelease == release_global_recovery_lock(Drainer) /\ RecFrame
RtMonCheck == up[Central] /\ check_and_recover_pending_logs(Central) /\ MonFrame
RtDown ==
    /\ ShardDownUpTo(Central, MaxOutages)
    /\ UNCHANGED recVars /\ UNCHANGED pageVars /\ UNCHANGED lockVars
RtUp == ShardUp(Central) /\ UNCHANGED recVars /\ UNCHANGED pageVars /\ UNCHANGED lockVars

NextRetry ==
    \/ RtWrite
    \/ RtBegin
    \/ RtAcquire
    \/ RtRead
    \/ RtFetch
    \/ RtAttempt
    \/ RtMark
    \/ RtUpdate
    \/ RtRelease
    \/ RtMonCheck
    \/ MonAttempt
    \/ MonMark
    \/ RtDown
    \/ RtUp

SpecRetry == InitCkpt /\ [][NextRetry]_vars

(***************************************************************************)
(* The read model: one session presses Fetch Data on the view page, with   *)
(* any row limit, over any contents of the three trans tables, while       *)
(* shards crash and come back.                                             *)
(***************************************************************************)
Reader == "A"
ViewIds == {1, 2}
ViewAmounts == {5, 10, 20}
Limits == 1..MaxLimit

\* the tables a shard may hold: at most one row for a trans_id (primary key);
\* the row of trans_id 1 with either amount, that of trans_id 2 as inserted
ViewTables ==
    {t \in SUBSET [trans_id : ViewIds, account_id : {2, 3}, amount : ViewAmounts] :
        /\ \A x \in t : IF x.trans_id = 1
                         THEN x.account_id = 3 /\ x.amount \in {10, 20}
                         ELSE x.account_id = 2 /\ x.amount = 5
        /\ \A x, y \in t : x.trans_id = y.trans_id => x = y}

InitRead ==
    /\ InitEnv /\ InitLockVars /\ InitPageVars
    /\ day = 0
    /\ trans \in [Nodes -> ViewTables]
    /\ recLog = [n \in Nodes |-> <<>>]
    /\ ckptTab = {}
    /\ dr = [p \in Sess |-> DrIdle]
    /\ wr = [p \in Sess |-> WrIdle]
    /\ replayed = <<>>
    /\ writes = 0

ViewRest == UNCHANGED envVars /\ UNCHANGED lockVars /\ UNCHANGED <<tx, order, mon, snap, ping>>

ViewBegin == view_begin(Reader) /\ ViewRest
ViewAcquire == acquire_global_recovery_lock(Reader) /\ RecFrame
ViewCheckpoints == get_global_checkpoints(Reader) /\ RecFrame
ViewDrain == drain_fetch(Reader) /\ RecFrame
ViewRelease == release_global_recovery_lock(Reader) /\ RecFrame
ViewFetch ==
    \E limit \in Limits :
        view_fetch(Reader, limit) /\ UNCHANGED recVars /\ ViewRest
ViewDown ==
    \E n \in Nodes :
        ShardDownUpTo(n, MaxCrashes) /\ UNCHANGED recVars /\ UNCHANGED pageVars /\ UNCHANGED lockVars
ViewUp == \E n \in Nodes : ShardUp(n) /\ UNCHANGED recVars /\ UNCHANGED pageVars /\ UNCHANGED lockVars

NextRead ==
    \/ ViewBegin
    \/ ViewAcquire
    \/ ViewCheckpoints
    \/ ViewDrain
    \/ ViewRelease
    \/ ViewFetch
    \/ ViewDown
    \/ ViewUp

SpecRead == InitRead /\ [][NextRead]_vars

(***************************************************************************)
(* The write-page model: two sessions press the buttons of the add and     *)
(* update pages while the clock runs and shards crash and come back.       *)
(***************************************************************************)
InitWrite == InitEnv /\ InitLockVars /\ InitRecVars /\ InitPageVars

WRest == UNCHANGED envVars /\ UNCHANGED <<lm, holds, takenOver>> /\ UNCHANGED <<order, mon, snap, view, ping>>

WBegin == \E p \in Sess, page \in Pages : begin_write(p, page) /\ WRest
WLockStart ==
    \E p \in Sess :
        /\ multi_start(p)
        /\ UNCHANGED <<day, trans, recLog, ckptTab, dr, wr, replayed>>
        /\ WRest
WLockTry == \E p \in Sess : multi_try(p) /\ UNCHANGED recVars /\ WRest
WLockDone == \E p \in Sess : multi_done(p) /\ UNCHANGED recVars /\ WRest
WExecute == \E p \in Sess : page_execute(p) /\ UNCHANGED recVars /\ WRest
WCommit ==
    \E p \in Sess :
        /\ commit_handler(p)
        /\ UNCHANGED <<day, ckptTab, dr, wr, replayed, writes>>
        /\ WRest
WRollback == \E p \in Sess : page_rollback(p) /\ UNCHANGED recVars /\ WRest
WTick == page_tick /\ UNCHANGED recVars /\ UNCHANGED pageVars /\ UNCHANGED lockVars
WDown ==
    \E n \in Nodes :
        /\ ShardDown(n)
        /\ tx' = break_tx(n)
        /\ UNCHANGED <<order, mon, snap, view, ping>> /\ UNCHANGED recVars /\ UNCHANGED lockVars
WUp == \E n \in Nodes :
        ShardUp(n) /\ UNCHANGED recVars /\ UNCHANGED pageVars /\ UNCHANGED lockVars

NextWrite ==
    \/ WBegin
    \/ RecAcquire
    \/ RecRead
    \/ RecFetch
    \/ RecAttempt
    \/ RecMark
    \/ RecUpdate
    \/ RecRelease
    \/ WLockStart
    \/ WLockTry
    \/ WLockDone
    \/ WExecute
    \/ WCommit
    \/ WRollback
    \/ WTick
    \/ WDown
    \/ WUp

SpecWrite == InitWrite /\ [][NextWrite]_vars

(***************************************************************************)
(* The multi-shard lock model: two sessions press the begin button of the   *)
(* update page and roll back, and the result of acquire_multi_node_lock is  *)
(* recorded for each of them.  Nothing is committed, so the drain of the    *)
(* begin button never finds a recovery entry to replay.                     *)
(***************************************************************************)
MRest == UNCHANGED envVars /\ UNCHANGED <<lm, holds, takenOver, mon, snap, view, ping>>

MBegin ==
    \E p \in Sess :
        /\ begin_write_upto(p, "update", MaxBegins)
        /\ order' = [order EXCEPT ![p] = <<>>]
        /\ MRest
MLockStart ==
    \E p \in Sess :
        /\ multi_start(p)
        /\ UNCHANGED <<day, trans, recLog, ckptTab, dr, wr, replayed>>
        /\ UNCHANGED order /\ MRest
MLockTry == \E p \in Sess : multi_try(p) /\ UNCHANGED recVars /\ UNCHANGED order /\ MRest
MLockDone ==
    \E p \in Sess :
        /\ multi_done(p)
        /\ order' = [order EXCEPT ![p] =
                Append(@, IF tx'[p].pc = "locked" THEN "locked" ELSE "lock_unavailable")]
        /\ UNCHANGED recVars /\ MRest
MExecute == \E p \in Sess : page_execute(p) /\ UNCHANGED recVars /\ UNCHANGED order /\ MRest
MRollback ==
    \E p \in Sess :
        /\ page_rollback(p)
        /\ order' = [order EXCEPT ![p] =
                IF tx'[p].pc = "idle" THEN Append(@, "rollback") ELSE @]
        /\ UNCHANGED recVars /\ MRest

NextMulti ==
    \/ MBegin
    \/ RecAcquire
    \/ RecRead
    \/ RecFetch
    \/ RecRelease
    \/ MLockStart
    \/ MLockTry
    \/ MLockDone
    \/ MExecute
    \/ MRollback
    \/ WTick
    \/ WDown
    \/ WUp

SpecMulti == InitWrite /\ [][NextMulti]_vars

(***************************************************************************)
(* The outage model: the multi-lock model with up to MaxCrashes shard      *)
(* crashes and a clock that stands still, so that no lock row ever gets    *)
(* stale and every grant is due to the shards that were reachable.         *)
(***************************************************************************)
XBegin ==
    \E p \in Sess :
        /\ begin_write(p, "update")
        /\ order' = [order EXCEPT ![p] = <<>>]
        /\ MRest
XDown ==
    \E n \in Nodes :
        /\ ShardDownUpTo(n, MaxCrashes)
        /\ tx' = break_tx(n)
        /\ UNCHANGED <<order, mon, snap, view, ping>> /\ UNCHANGED recVars /\ UNCHANGED lockVars

NextOutage ==
    \/ XBegin
    \/ RecAcquire
    \/ RecRead
    \/ RecFetch
    \/ RecRelease
    \/ MLockStart
    \/ MLockTry
    \/ MLockDone
    \/ MExecute
    \/ MRollback
    \/ XDown
    \/ WUp

SpecOutage == InitWrite /\ [][NextOutage]_vars

(***************************************************************************)
(* The termination model: session A calls acquire_lock and release_lock on *)
(* shard 1 directly, session B presses the begin button of the update page *)
(* once (acquire_multi_node_lock) and rolls back, while a shard crashes    *)
(* and comes back.  A step of a running call takes no time; the clock      *)
(* advances while every session waits for its user or sleeps between two   *)
(* polls, and it does so again and again.  A call is made only when the    *)
(* clock can still reach its deadline.                                     *)
(***************************************************************************)
\* clock steps until a timeout of t seconds has passed
ticks_needed(t) == (t + TickStep - 1) \div TickStep

\* the clock of the model can reach the deadline of a call made now
deadline_in_reach(t) == now + TickStep * ticks_needed(t) <= MaxTime

TermFrame == UNCHANGED envVars /\ UNCHANGED recVars /\ UNCHANGED pageVars

TermCall ==
    \E r \in LockResources, n \in LockNodes, t \in Timeouts :
        /\ deadline_in_reach(t)
        /\ acquire_lock_connect(Holder, r, n, t)
        /\ TermFrame
TermLoop == acquire_lock_loop(Holder) /\ TermFrame
TermInsert == acquire_lock_insert(Holder) /\ TermFrame
TermReturn == acquire_lock_return(Holder) /\ TermFrame
TermRelease ==
    \E r \in LockResources, n \in LockNodes : release_lock(Holder, r, n) /\ TermFrame
TermBegin ==
    /\ writes = 0
    /\ deadline_in_reach(WriteLockTimeout)
    /\ begin_write(Taker, "update")
    /\ order' = [order EXCEPT ![Taker] = <<>>]
    /\ MRest
TermTick ==
    /\ page_tick
    /\ \A s \in Sess : lm[s].pc = "idle" \/ lock_waiting(s)
    /\ UNCHANGED recVars /\ UNCHANGED pageVars /\ UNCHANGED lockVars
TermDown ==
    \E n \in Nodes :
        /\ ShardDown(n)
        /\ tx' = break_tx(n)
        /\ lm' = break_lm(n)
        /\ UNCHANGED <<lockTab, active, holds, takenOver>>
        /\ UNCHANGED <<order, mon, snap, view, ping>> /\ UNCHANGED recVars

NextTerm ==
    \/ TermCall
    \/ TermLoop
    \/ TermInsert
    \/ TermReturn
    \/ TermRelease
    \/ TermBegin
    \/ RecAcquire
    \/ RecRead
    \/ RecFetch
    \/ RecRelease
    \/ MLockStart
    \/ MLockTry
    \/ MLockDone
    \/ MExecute
    \/ MRollback
    \/ TermTick
    \/ TermDown
    \/ WUp

\* the steps of a running call or handler are taken (weak fairness); the
\* clock advances whenever it can do so again and again (strong fairness)
SpecTerm ==
    /\ InitWrite
    /\ [][NextTerm]_vars
    /\ WF_vars(TermLoop) /\ WF_vars(TermInsert) /\ WF_vars(TermReturn)
    /\ WF_vars(RecAcquire) /\ WF_vars(RecRead) /\ WF_vars(RecFetch) /\ WF_vars(RecRelease)
    /\ WF_vars(MLockStart) /\ WF_vars(MLockTry) /\ WF_vars(MLockDone) /\ WF_vars(MExecute)
    /\ SF_vars(TermTick)

(***************************************************************************)
(* The button model: two sessions press the begin, commit and rollback      *)
(* buttons of the add and update pages, and the outcome of the last commit  *)
(* or rollback handler of each session is recorded.                         *)
(***************************************************************************)
BBegin ==
    \E p \in Sess, page \in Pages :
        /\ begin_write(p, page)
        /\ order' = [order EXCEPT ![p] = <<>>]
        /\ MRest
BCommit ==
    \E p \in Sess :
        /\ commit_handler(p)
        /\ order' = [order EXCEPT ![p] =
                <<IF commit_ok(p) THEN "commit" ELSE "commit_failed">>]
        /\ UNCHANGED <<day, ckptTab, dr, wr, replayed, writes>>
        /\ MRest
BRollback ==
    \E p \in Sess :
        /\ page_rollback(p)
        /\ order' = [order EXCEPT ![p] =
                <<IF rollback_ok(p) THEN "rollback" ELSE "rollback_failed">>]
        /\ UNCHANGED recVars /\ MRest

NextButtons ==
    \/ BBegin
    \/ RecAcquire
    \/ RecRead
    \/ RecFetch
    \/ RecAttempt
    \/ RecMark
    \/ RecUpdate
    \/ RecRelease
    \/ WLockStart
    \/ WLockTry
    \/ WLockDone
    \/ WExecute
    \/ BCommit
    \/ BRollback
    \/ WTick
    \/ WDown
    \/ WUp

SpecButtons == InitWrite /\ [][NextButtons]_vars

(***************************************************************************)
(* The commit-order model: the commit handler of one session runs call by  *)
(* call, and the order of its events is recorded.  A single session never  *)
(* waits for a lock, so the clock stands still in this model.              *)
(***************************************************************************)
InitOrder == InitEnv /\ InitLockVars /\ InitRecVars /\ InitPageVars

ORest == UNCHANGED envVars /\ UNCHANGED <<lm, holds, takenOver, mon, snap, view, ping>>

\* the events of one replicate_transaction call
replication_events(p) ==
    IF wr[p].targets = <<>> THEN <<>>
    ELSE IF wr'[p].pc = "lb_check" THEN <<"attempt", "fail">>
    ELSE <<"attempt">>

\* the session whose buttons are pressed
Writer == "A"

OBegin ==
    \E p \in {Writer}, page \in Pages :
        /\ begin_write(p, page)
        /\ order' = [order EXCEPT ![p] = <<>>]
        /\ ORest
OCommit ==
    \E p \in Sess :
        /\ page_commit(p)
        /\ order' = [order EXCEPT ![p] =
                IF tx'[p].pc = "replicating" THEN Append(@, "commit")
                ELSE IF tx'[p].pc = "idle" THEN Append(@, "release")
                ELSE @]
        /\ UNCHANGED <<day, recLog, ckptTab, dr, replayed, writes>>
        /\ ORest
OReplicate ==
    \E p \in Sess :
        /\ replicate_transaction(p)
        /\ order' = [order EXCEPT ![p] = @ \o replication_events(p)]
        /\ UNCHANGED <<tx, lockTab, active>>
        /\ ORest
OLogCheck ==
    \E p \in Sess :
        log_backup_check(p) /\ UNCHANGED <<tx, order, lockTab, active>> /\ ORest
OLogInsert ==
    \E p \in Sess :
        /\ log_backup_insert(p)
        /\ order' = [order EXCEPT ![p] =
                IF recLog' # recLog THEN Append(@, "log") ELSE @]
        /\ UNCHANGED <<tx, lockTab, active>>
        /\ ORest
OCrossBackup ==
    \E p \in Sess :
        store_cross_backup(p) /\ UNCHANGED <<tx, order, lockTab, active>> /\ ORest
ORelease ==
    \E p \in Sess :
        /\ page_release(p)
        /\ order' = [order EXCEPT ![p] = Append(@, "release")]
        /\ UNCHANGED recVars
        /\ ORest

NextOrder ==
    \/ OBegin
    \/ RecAcquire
    \/ RecRead
    \/ RecFetch
    \/ RecAttempt
    \/ RecMark
    \/ RecUpdate
    \/ RecRelease
    \/ WLockStart
    \/ WLockTry
    \/ WLockDone
    \/ WExecute
    \/ OCommit
    \/ OReplicate
    \/ OLogCheck
    \/ OLogInsert
    \/ OCrossBackup
    \/ ORelease
    \/ WRollback
    \/ WDown
    \/ WUp

SpecOrder == InitOrder /\ [][NextOrder]_vars

(***************************************************************************)
(* The primary model: one write of the commit-order model made with        *)
(* node 1, nodes 1 and 3 or every node down at the start and the row of    *)
(* trans_id 1 possibly on node 2 as well, so that every choice of primary  *)
(* occurs.                                                                 *)
(***************************************************************************)
Row1 == [trans_id |-> 1, account_id |-> 3, amount |-> 10]

InitPrimary ==
    /\ \E down \in {{}, {1}, {1, 3}, {1, 2, 3}} : up = [n \in Nodes |-> n \notin down]
    /\ now = 0
    /\ failures = 0
    /\ InitLockVars /\ InitPageVars
    /\ day = 0
    /\ \E t2 \in {{}, {Row1}} : trans = [InitTrans EXCEPT ![2] = t2]
    /\ recLog = [n \in Nodes |-> <<>>]
    /\ ckptTab = {}
    /\ dr = [p \in Sess |-> DrIdle]
    /\ wr = [p \in Sess |-> WrIdle]
    /\ replayed = <<>>
    /\ writes = 0

\* the begin button, pressed once in a behaviour
PBegin == writes = 0 /\ OBegin

NextPrimary ==
    \/ PBegin
    \/ RecAcquire
    \/ RecRead
    \/ RecFetch
    \/ RecRelease
    \/ WLockStart
    \/ WLockTry
    \/ WLockDone
    \/ WExecute
    \/ OCommit
    \/ OReplicate
    \/ OLogCheck
    \/ OLogInsert
    \/ OCrossBackup
    \/ ORelease
    \/ WRollback
    \/ WDown
    \/ WUp

SpecPrimary == InitPrimary /\ [][NextPrimary]_vars

(***************************************************************************)
(* C1: mutual exclusion per shard.                                         *)
(***************************************************************************)
OneRowPerName ==
    \A n \in Nodes : \A x \in lockTab[n], y \in lockTab[n] :
        x.lock_name = y.lock_name => x = y

\* C1 as stated: two distinct sessions never hold the same resource on the
\* same shard at the same time (from acquire returning true until release is
\* called), and no shard has two lock rows with one lock_name.
C1_MutualExclusion ==
    /\ \A a \in Sess, b \in Sess, n \in Nodes, r \in Resources :
          a # b => ~(holds[a][n][r] /\ holds[b][n][r])
    /\ OneRowPerName

\* C1 amended: two distinct sessions hold the same resource on the same
\* shard at the same time only if the lock row of one of them was deleted as
\* stale (older than the timeout of the other's acquire call) since it
\* acquired; no shard ever has two lock rows with one lock_name.
C1_MutualExclusionUnlessStale ==
    /\ \A a \in Sess, b \in Sess, n \in Nodes, r \in Resources :
          (a # b /\ holds[a][n][r] /\ holds[b][n][r])
              => (takenOver[a][n][r] \/ takenOver[b][n][r])
    /\ OneRowPerName

\* a session holds the lock while the other one is inside acquire_lock on
\* the same shard and finds the holder's fresh row
C1_Witness ==
    \E a \in Sess, b \in Sess, n \in Nodes, r \in Resources :
        /\ a # b
        /\ holds[a][n][r]
        /\ lm[b].pc = "loop" /\ lm[b].node = n /\ lm[b].res = r
        /\ \E row \in select_lock(n, r) :
              row.locked_by = a /\ ~is_stale(row, lm[b].timeout)

(***************************************************************************)
(* Drain cycles: the node_id = 0 mutex.                                    *)
(***************************************************************************)
\* the process is past acquire_global_recovery_lock and before the release
Running(p) == dr[p].pc \in {"read", "fetch", "attempt", "mark", "update", "release"}

mutex_value(tab) == ckpt_value(tab, 0, -1)

stored(tab, n) == ckpt_value(tab, n, 0)

C10_OneRunner ==
    \A p, q \in Sess :
        /\ Running(p) /\ Running(q) => p = q
        /\ Running(p) => mutex_value(ckptTab) = os_getpid(p)

C10_Step ==
    /\ (mutex_value(ckptTab) = -1 /\ mutex_value(ckptTab') # -1) =>
            \E p \in Sess :
                /\ dr[p].pc = "acquire" /\ dr'[p].pc = "read"
                /\ mutex_value(ckptTab') = os_getpid(p)
                /\ \A q \in Sess \ {p} : dr'[q] = dr[q] /\ ~Running(q)
    /\ \A p \in Sess :
            (dr[p].pc = "acquire" /\ dr'[p].pc = "idle") =>
                /\ mutex_value(ckptTab') = mutex_value(ckptTab)
                /\ \A n \in Nodes : stored(ckptTab', n) = stored(ckptTab, n)
                /\ replayed' = replayed /\ trans' = trans /\ recLog' = recLog
    /\ (replayed' # replayed \/ \E n \in Nodes : stored(ckptTab', n) # stored(ckptTab, n)) =>
            \E p \in Sess : Running(p) /\ dr'[p] # dr[p]
    /\ (mutex_value(ckptTab) # -1 /\ mutex_value(ckptTab') = -1) =>
            \E p \in Sess :
                /\ dr[p].pc = "release" /\ dr'[p].pc = "idle"
                /\ mutex_value(ckptTab) = os_getpid(p)

live_rows(n, h) ==
    {i \in 1..Len(recLog[n]) :
        /\ recLog[n][i].transaction_hash = h
        /\ recLog[n][i].status \in {"PENDING", "COMPLETED"}}

\* C9: for every source shard and every transaction_hash logged there by
\* log_backup (same target, source, statement and day), the shard holds
\* exactly one row with that hash in state PENDING or COMPLETED, however the
\* calls were interleaved.
C9_OneRowPerHash ==
    \A n \in Nodes : \A i \in 1..Len(recLog[n]) :
        (recLog[n][i].source_node = n /\ recLog[n][i].status \in {"PENDING", "COMPLETED"})
            => Cardinality(live_rows(n, recLog[n][i].transaction_hash)) = 1

(***************************************************************************)
(* Drain cycles: replay, completion and checkpoints.                       *)
(***************************************************************************)
\* the table shows the effect of the statement
has_effect(tab, q) ==
    IF q.op = "INSERT"
    THEN [trans_id |-> q.trans_id, account_id |-> q.account_id, amount |-> q.amount] \in tab
    ELSE \A x \in tab : x.trans_id = q.trans_id => x.amount = q.amount

\* the entry the drain cycle of p is about to attempt
current_log(p) == dr[p].logs[dr[p].i]

\* p attempts an entry that is still PENDING and below the retry limit while
\* the central shard, the shard holding the entry and the target are reachable
attempts_reachable(p) ==
    /\ dr[p].pc = "attempt"
    /\ dr'[p] # dr[p]
    /\ current_log(p).row.retry_count < max_retries
    /\ recLog[current_log(p).found_in_node][current_log(p).log_id].status = "PENDING"
    /\ up[Central]
    /\ up[current_log(p).found_in_node]
    /\ up[current_log(p).row.target_node]

C5_Step ==
    /\ writes' # writes =>
            \E q \in Stmts :
                has_effect(trans'[choose_primary(up, get_node_for_account(q.account_id))], q)
    /\ \A p \in Sess :
            attempts_reachable(p) =>
                /\ has_effect(trans'[current_log(p).row.target_node],
                              current_log(p).row.sql_statement)
                /\ dr'[p].pc = "mark"
                /\ dr'[p].mark.status = "COMPLETED"

\* C5: a committed write is on its primary, and when a drain cycle that holds
\* the mutex attempts a PENDING entry whose target shard is reachable, the
\* statement is on the target afterwards and the entry is on its way to
\* COMPLETED.
C5_ReplayedWhenReachable == [][C5_Step]_vars

\* C6: no logged statement is applied to its target by more than one replay,
\* and every COMPLETED row was replayed itself, has the hash of a replayed row,
\* or found its row already on the target.
C6_ExactlyOnce ==
    /\ \A i, j \in 1..Len(replayed) :
            replayed[i].hash = replayed[j].hash => i = j
    /\ \A n \in Nodes : \A i \in 1..Len(recLog[n]) :
            recLog[n][i].status = "COMPLETED" =>
                \/ \E k \in 1..Len(replayed) :
                        replayed[k].hash = recLog[n][i].transaction_hash
                \/ dup_key(trans[recLog[n][i].target_node], recLog[n][i].sql_statement)

C7_Step == \A n \in Nodes : stored(ckptTab', n) >= stored(ckptTab, n)

\* C7: the stored checkpoint of each shard never decreases.
C7_Monotone == [][C7_Step]_vars

\* C8: every recovery_log row of shard n with log_id at most the stored
\* checkpoint of n is COMPLETED or FAILED.
C8_BelowCheckpointTerminal ==
    \A n \in Nodes : \A i \in 1..Len(recLog[n]) :
        i <= stored(ckptTab, n) => recLog[n][i].status \in {"COMPLETED", "FAILED"}

(***************************************************************************)
(* C2, C3: the write pages under two sessions.                             *)
(***************************************************************************)
\* rows of the trans table that an insert of the add page created: the seed
\* row has trans_id 1, and each session inserts its own amount
inserted_rows(n) == {x \in trans[n] : x.trans_id > form_trans_id}

\* C2: two inserts that commit get distinct trans_id values, so no trans_id
\* stands for two different inserted rows, neither within one shard nor
\* across the shards.
C2_DistinctIds ==
    \A n \in Nodes, m \in Nodes :
        \A x \in inserted_rows(n), y \in inserted_rows(m) :
            x.trans_id = y.trans_id => x = y

\* the write of p is between the success of its begin handler and the end of
\* its commit or rollback
in_write(p) == tx[p].pc \in {"open", "replicating"}

\* the distributed_lock row of r on node n belongs to session p
owns_row(p, n, r) == \E row \in select_lock(n, r) : row.locked_by = p

\* C3: while a write is open, its session owns the lock row of the resource
\* on every shard where acquire_multi_node_lock acquired it.
C3_LockHeld ==
    \A p \in Sess :
        in_write(p) =>
            \A i \in 1..Len(tx[p].acquired) :
                owns_row(p, tx[p].acquired[i], tx[p].res)

(***************************************************************************)
(* C4: the order of the steps of one write.                                *)
(***************************************************************************)
\* the events of the commit of p after position i
later_events(p, i) == {order[p][j] : j \in (i + 1)..Len(order[p])}

\* C4: the primary COMMIT comes before every replication attempt, a
\* recovery-log entry is written right after the failure it records was
\* observed, and the release of the lock is the last step: no replication
\* attempt and no log write follows it, and none is still in progress.
C4_Order ==
    \A p \in Sess :
        /\ \A i \in 1..Len(order[p]) :
              /\ order[p][i] = "attempt" => \E j \in 1..(i - 1) : order[p][j] = "commit"
              /\ order[p][i] = "fail" => i > 1 /\ order[p][i - 1] = "attempt"
              /\ order[p][i] = "log" => i > 1 /\ order[p][i - 1] = "fail"
              /\ order[p][i] = "release" => later_events(p, i) = {}
        /\ (order[p] # <<>> /\ order[p][Len(order[p])] = "release") =>
              wr[p].pc = "idle"

\* a write whose replication failed, was logged, and whose lock was released
C4_Witness ==
    \E p \in Sess : order[p] = <<"commit", "attempt", "fail", "log", "release">>

(***************************************************************************)
(* C11: at most one replay run is in progress at any time, whichever entry  *)
(* point started it: the drains that hold the mutex and the recovery check  *)
(* of the liveness monitor never run side by side.                          *)
(***************************************************************************)
runs_in_progress ==
    Cardinality({p \in Sess : Running(p)}) + (IF mon.pc # "idle" THEN 1 ELSE 0)

C11_OneReplayRun == runs_in_progress <= 1

(***************************************************************************)
(* C12: when release_all_locks returns, no distributed_lock row whose       *)
(* holder is the calling session exists on any shard that accepted the      *)
(* connection during the call, and the session's active-lock set is empty.  *)
(***************************************************************************)
rows_of(s, n) == {x \in lockTab[n] : x.locked_by = s}

C12_Step ==
    \A s \in Sess :
        (lm[s].pc = "idle" /\ lm'[s].pc = "all_ret") =>
            /\ \A n \in Nodes : up[n] => {x \in lockTab'[n] : x.locked_by = s} = {}
            /\ \A r \in Resources : active'[s][r] = <<>>

C12_ReleaseAll == [][C12_Step]_vars

\* a cleanup that deleted rows of the caller, with both shards reachable,
\* and left the other session's row alone
C12_Witness ==
    \E s, q \in Sess :
        /\ s # q
        /\ lm[s].pc = "all_ret" /\ lm[s].result
        /\ \A n \in AllNodes : up[n] /\ rows_of(s, n) = {}
        /\ \E n \in AllNodes : rows_of(q, n) # {}

(***************************************************************************)
(* C13: acquire_multi_node_lock tries the shards in the given order within  *)
(* one overall deadline and returns true exactly when at least one shard    *)
(* granted the lock; when it returns false the session holds the resource   *)
(* on no shard and the write ends without any SQL executed on any shard.    *)
(***************************************************************************)
SeqSet(q) == {q[i] : i \in 1..Len(q)}

\* the shards before idx have each been tried once, and a waiting
\* acquire_lock call was given what is left of the one deadline
C13_InOrder ==
    \A p \in Sess :
        tx[p].pc = "lock" =>
            /\ SeqSet(tx[p].acquired) \cup SeqSet(tx[p].failed) = 1..(tx[p].idx - 1)
            /\ SeqSet(tx[p].acquired) \cap SeqSet(tx[p].failed) = {}
            /\ \A i, j \in 1..Len(tx[p].acquired) :
                    i < j => tx[p].acquired[i] < tx[p].acquired[j]
            /\ tx[p].nstart # -1 =>
                    /\ tx[p].ntimeout > 0
                    /\ tx[p].ntimeout = WriteLockTimeout - (tx[p].nstart - tx[p].start)

C13_Step ==
    \A p \in Sess :
        (tx[p].pc = "lock" /\ tx'[p].pc # "lock") =>
            /\ tx'[p].pc = "locked" <=> tx[p].acquired # <<>>
            /\ tx'[p].pc # "locked" =>
                    /\ tx'[p] = TxIdle
                    /\ \A n \in Nodes :
                          {x \in lockTab'[n] : x.lock_name = lock_name(tx[p].res)
                                                /\ x.locked_by = p} = {}
                    /\ active'[p][tx[p].res] = <<>>
                    /\ trans' = trans /\ recLog' = recLog

C13_AmendedStep ==
    \A p \in Sess :
        /\ (tx[p].pc = "lock" /\ tx'[p].pc # "lock") =>
              /\ tx'[p].pc = "locked" <=> tx[p].acquired # <<>>
              /\ tx'[p].pc # "locked" =>
                    /\ tx'[p] = TxIdle
                    /\ lockTab' = lockTab /\ active' = active
                    /\ trans' = trans /\ recLog' = recLog
        /\ (tx[p].pc = "lock" /\ tx'[p].pc = "lock" /\ tx'[p] # tx[p]
                /\ tx'[p].acquired = tx[p].acquired) =>
              \A n \in Nodes :
                    {x \in lockTab'[n] : x.locked_by = p} = {x \in lockTab[n] : x.locked_by = p}

C14_Step ==
    \A p \in Sess :
        order'[p] = Append(order[p], "rollback") =>
            /\ \A n \in Nodes :
                  up[n] => {x \in lockTab'[n] : x.lock_name = lock_name(tx[p].res)
                                                 /\ x.locked_by = p} = {}
            /\ active'[p][tx[p].res] = <<>>

C14_ReleaseMulti == [][C14_Step]_vars

\* a release that passed a shard it could not reach: the rows of the two
\* other shards are gone, the row of the unreachable shard is still there
C14_Witness ==
    \E p \in Sess :
        /\ order[p] = <<"locked", "rollback">>
        /\ \E n \in Nodes : ~up[n] /\ rows_of(p, n) # {}
        /\ \A n \in Nodes : up[n] => rows_of(p, n) = {}

(***************************************************************************)
(* C15: the holder A of a lock row never releases it; a session B that      *)
(* calls acquire_lock with timeout T once the row is older than T deletes   *)
(* the stale row and acquires the lock, the row's holder becomes B, and B's *)
(* release afterwards leaves no row for the resource.                       *)
(***************************************************************************)
\* B has just entered acquire_lock with timeout T and A's row is older than T
stale_call(r, T) ==
    /\ lm[Taker].pc = "loop" /\ lm[Taker].res = r /\ lm[Taker].timeout = T
    /\ lm[Taker].start = now
    /\ \E row \in select_lock(1, r) : row.locked_by = Holder /\ lock_age(row) > T

\* B's call has returned True and the row is B's
acquired_by_taker(r) ==
    /\ lm[Taker].pc = "ret" /\ lm[Taker].result /\ lm[Taker].res = r
    /\ select_lock(1, r) # {}
    /\ \A row \in select_lock(1, r) : row.locked_by = Taker

\* a release of B that follows its acquire of the row taken over from A
\* leaves no row of the resource
C15_ReleaseStep ==
    \A r \in LockResources :
        (holds[Taker][1][r] /\ takenOver[Holder][1][r] /\ ~holds'[Taker][1][r])
            => select_lock(1, r)' = {}

\* as stated, for every timeout
C15_StaleTakeover ==
    /\ \A r \in LockResources, T \in Timeouts :
            stale_call(r, T) ~> acquired_by_taker(r)
    /\ [][C15_ReleaseStep]_vars

\* amended: for every timeout above zero
C15_StaleTakeoverPositive ==
    /\ \A r \in LockResources, T \in Timeouts \ {0} :
            stale_call(r, T) ~> acquired_by_taker(r)
    /\ [][C15_ReleaseStep]_vars

\* B holds the resource whose row it took over from A
C15_Witness ==
    \E r \in LockResources :
        /\ takenOver[Holder][1][r] /\ holds[Holder][1][r]
        /\ acquired_by_taker(r)
        /\ lm[Taker].timeout = WriteLockTimeout

(***************************************************************************)
(* C17: acquire_lock with timeout 0 on a resource whose lock row is held    *)
(* by a different session returns false without waiting and without         *)
(* deleting or changing that row.                                           *)
(***************************************************************************)
\* the call of s has timeout 0 and the row of its resource is another's
zero_call(s) ==
    /\ lm[s].pc = "loop" /\ lm[s].timeout = 0 /\ lm[s].connOk
    /\ \E row \in select_lock(lm[s].node, lm[s].res) : ~is_ours(row, s)

\* the next step of such a call is its return of False, the table
\* untouched; while the call is there no row is deleted as stale
C17_Step ==
    \A s \in Sess :
        zero_call(s) =>
            /\ (lm'[s] # lm[s] /\ up' = up) =>
                    /\ lm'[s].pc = "ret" /\ ~lm'[s].result
                    /\ lockTab' = lockTab
            /\ \A q \in Sess \ {s} :
                    takenOver'[q][lm[s].node][lm[s].res]
                        => takenOver[q][lm[s].node][lm[s].res]

C17_ZeroTimeout == [][C17_Step]_vars

\* the call has returned False in the second it was made, and the other
\* session still holds its row
C17_Witness ==
    \E s, q \in Sess :
        /\ s # q
        /\ lm[s].pc = "ret" /\ ~lm[s].result /\ lm[s].timeout = 0
        /\ lm[s].connOk /\ lm[s].start = now
        /\ holds[q][lm[s].node][lm[s].res]
        /\ \E row \in select_lock(lm[s].node, lm[s].res) : row.locked_by = q

(***************************************************************************)
(* C16: a successful acquire_lock followed by release_lock by the same      *)
(* session on the same shard leaves the shard's distributed_lock table as   *)
(* it was before the acquire, whatever rows it held.                        *)
(***************************************************************************)
\* B releases r, and its last acquire_lock call for r returned True
release_after_acquire(r) ==
    holds[Taker][1][r] /\ ~holds'[Taker][1][r] /\ snap[Taker][r].ok

\* the rows of the other resources are not touched by B's calls for r
other_rows_kept(r) ==
    \A r2 \in Resources \ {r} : select_lock(1, r2)' = select_lock(1, r2)

\* as stated: the rows of r are again what the acquire found
C16_Step ==
    \A r \in Resources :
        release_after_acquire(r) =>
            /\ select_lock(1, r)' = snap[Taker][r].before
            /\ other_rows_kept(r)

C16_AcquireReleaseNoOp == [][C16_Step]_vars

\* amended: when the acquire found no row of r
C16_FreshStep ==
    \A r \in Resources :
        (release_after_acquire(r) /\ snap[Taker][r].before = {}) =>
            /\ select_lock(1, r)' = snap[Taker][r].before
            /\ other_rows_kept(r)

C16_NoOpOnFreeResource == [][C16_FreshStep]_vars

\* B has acquired and released a resource that was free, next to a row of A
C16_Witness ==
    \E r \in Resources :
        /\ snap[Taker][r].done /\ snap[Taker][r].ok /\ snap[Taker][r].before = {}
        /\ select_lock(1, r) = {}
        /\ rows_of(Holder, 1) # {}


(***************************************************************************)
(* C18: a failed replication to a target never undoes the commit: the      *)
(* primary's committed row stays, log_backup appends a recovery entry for  *)
(* (target, primary, sql), and the remaining targets are still tried.      *)
(***************************************************************************)
\* p has committed on its primary and takes a step of its replication
replication_step(p) == wr[p].pc # "idle" /\ wr'[p] # wr[p]

\* the primary's table is left alone by the replication and by log_backup
C18_CommitKept ==
    \A p \in Sess :
        replication_step(p) => trans'[wr[p].source] = trans[wr[p].source]

\* no target is skipped: the handler ends only with every target tried
C18_Continues ==
    \A p \in Sess :
        replication_step(p) =>
            IF wr'[p].pc = "idle" THEN wr[p].targets = <<>>
            ELSE /\ wr'[p].stmt = wr[p].stmt /\ wr'[p].source = wr[p].source
                 /\ \/ wr'[p].targets = wr[p].targets
                    \/ /\ wr[p].pc = "replicate"
                       /\ wr'[p].targets = Tail(wr[p].targets)

\* the primary's recovery_log holds a PENDING entry for the failed target
logged_for(log, w) ==
    \E i \in 1..Len(log[w.source]) :
        /\ log[w.source][i].target_node = w.target
        /\ log[w.source][i].source_node = w.source
        /\ log[w.source][i].sql_statement = w.stmt
        /\ log[w.source][i].status = "PENDING"

\* log_backup returns to replicate_transaction with the entry in place
C18_Logged ==
    \A p \in Sess :
        (/\ replication_step(p)
         /\ wr[p].pc \in {"lb_check", "lb_insert"}
         /\ wr'[p].pc # "lb_insert") => logged_for(recLog', wr[p])

C18_Step == C18_CommitKept /\ C18_Continues /\ C18_Logged

C18_ReplicationFailure == [][C18_Step]_vars


(***************************************************************************)
(* C19: the rollback button rolls back the session on the primary, releases *)
(* the multi-shard lock of the write on every shard, discards the           *)
(* transaction, replicates nothing and writes no recovery-log entry; the    *)
(* write leaves the trans table of every shard as it found it.              *)
(***************************************************************************)
\* the rollback handler of p has just run on its open transaction
rollback_pressed(p) ==
    /\ tx[p].pc = "open"
    /\ order'[p] # order[p]
    /\ order'[p] \in {<<"rollback">>, <<"rollback_failed">>}

\* a handler of p's write other than a successful commit takes a step
uncommitted_step(p) ==
    /\ tx[p].pc \in {"lock", "locked", "open"}
    /\ tx'[p] # tx[p]
    /\ order'[p] # <<"commit">>

C19_Step ==
    \A p \in Sess :
        /\ rollback_pressed(p) =>
              /\ tx'[p] = TxIdle
              /\ \A n \in Nodes :
                    up[n] => {x \in lockTab'[n] : x.lock_name = lock_name(tx[p].res)
                                                   /\ x.locked_by = p} = {}
              /\ active'[p][tx[p].res] = <<>>
              /\ recLog' = recLog /\ wr' = wr
        /\ uncommitted_step(p) => trans' = trans

C19_Rollback == [][C19_Step]_vars


(***************************************************************************)
(* C20: when the COMMIT on the primary fails, the transaction is rolled     *)
(* back, the multi-shard lock of the write is released, the write is        *)
(* removed from the active transactions, nothing is replicated and no       *)
(* recovery entry is written.                                               *)
(***************************************************************************)
\* the commit handler of p has just run and conn.commit() raised
commit_failure(p) ==
    /\ tx[p].pc = "open"
    /\ order'[p] # order[p]
    /\ order'[p] = <<"commit_failed">>

C20_Step ==
    \A p \in Sess :
        commit_failure(p) =>
            /\ tx'[p] = TxIdle
            /\ \A n \in Nodes :
                  up[n] => {x \in lockTab'[n] : x.lock_name = lock_name(tx[p].res)
                                                 /\ x.locked_by = p} = {}
            /\ active'[p][tx[p].res] = <<>>
            /\ trans' = trans /\ recLog' = recLog /\ wr' = wr

C20_CommitFailure == [][C20_Step]_vars


(***************************************************************************)
(* C21: replaying an entry whose statement was already applied on the       *)
(* target, found either by a COMPLETED row of the same transaction_hash or  *)
(* by a duplicate-key error of the re-executed statement, marks the entry   *)
(* COMPLETED and changes no row of the target's trans table.                *)
(***************************************************************************)
\* a replay found the statement applied and is about to write the status
found_applied(d) == d.pc = "mark" /\ d.result = "skipped"

\* the entry the replay is working on
entry_of(log, d) == log[d.logs[d.i].found_in_node][d.logs[d.i].log_id]

\* the attempt that finds the statement applied executes nothing
C21_NoEffect ==
    /\ \A p \in Sess :
          (~found_applied(dr[p]) /\ found_applied(dr'[p])) =>
              trans' = trans /\ replayed' = replayed
    /\ (~found_applied(mon) /\ found_applied(mon')) =>
              trans' = trans /\ replayed' = replayed

\* as stated: the status update that follows leaves the entry COMPLETED
C21_Step ==
    /\ C21_NoEffect
    /\ \A p \in Sess :
          (found_applied(dr[p]) /\ dr'[p] # dr[p]) =>
              trans' = trans /\ entry_of(recLog', dr[p]).status = "COMPLETED"
    /\ (found_applied(mon) /\ mon' # mon) =>
              trans' = trans /\ entry_of(recLog', mon).status = "COMPLETED"

C21_ReachableStep ==
    /\ C21_NoEffect
    /\ \A p \in Sess :
          (found_applied(dr[p]) /\ dr'[p] # dr[p]) =>
              /\ trans' = trans
              /\ up[dr[p].logs[dr[p].i].found_in_node] =>
                    entry_of(recLog', dr[p]).status = "COMPLETED"
    /\ (found_applied(mon) /\ mon' # mon) =>
              /\ trans' = trans
              /\ up[mon.logs[mon.i].found_in_node] =>
                    entry_of(recLog', mon).status = "COMPLETED"

executed_before(h) == \E k \in 1..Len(replayed) : replayed[k].hash = h

\* no replay executes a hash a second time
C22_OnceStep ==
    Len(replayed') > Len(replayed) =>
        ~executed_before(replayed'[Len(replayed')].hash)

\* the scan of the monitor's run closes every later copy it has read
C22_MonitorStep ==
    (mon.pc = "idle" /\ mon' # mon) =>
        \A n \in Nodes :
            LET logs == all_pending_logs(n) IN
            (mon'.node = n) =>
                \A i \in 1..Len(logs) :
                    ~first_of_hash(logs, i) =>
                        /\ recLog'[logs[i].found_in_node][logs[i].log_id].status = "COMPLETED"
                        /\ \A j \in 1..Len(mon'.logs) : mon'.logs[j] # logs[i]

\* the drain meets a copy of a hash it has executed: the copy is closed
\* without an execution and is not a failure
C22_DrainStep ==
    \A p \in Sess :
        LET d == dr[p] IN
        (/\ d.pc = "attempt" /\ dr'[p] # d
         /\ executed_before(d.logs[d.i].row.transaction_hash)
         /\ d.logs[d.i].row.retry_count < max_retries
         /\ up[current_node_id]) =>
            /\ replayed' = replayed /\ trans' = trans
            /\ dr'[p].pc = "mark"
            /\ dr'[p].mark.status = "COMPLETED"
            /\ dr'[p].result # "failed"

C22_Step == C22_OnceStep /\ C22_MonitorStep /\ C22_DrainStep

C22_OneExecutionPerHash == [][C22_Step]_vars


(***************************************************************************)
(* C23: the statement of a recovery entry is executed with a failing        *)
(* outcome at most max_retries times; an entry whose retry_count has        *)
(* reached max_retries is marked FAILED, and a FAILED entry is never        *)
(* executed again.                                                          *)
(***************************************************************************)
\* the replay got past the retry test and tried the statement on the target
tries_statement(d, d2) ==
    /\ d.pc = "attempt" /\ d2.pc = "mark"
    /\ d2.mark.msg # "Max retries exceeded"

\* ... and the attempt failed
fails_statement(d, d2) == tries_statement(d, d2) /\ d2.mark.kind = "retry"

\* a replay that finds the retries used up closes the entry as FAILED
gives_up(d, d2) ==
    (d.pc = "attempt" /\ d2 # d /\ d.logs[d.i].row.retry_count >= max_retries)
        => d2.pc = "mark" /\ d2.mark.status = "FAILED"

C23_Step ==
    /\ \A p \in Sess :
          /\ fails_statement(dr[p], dr'[p]) =>
                entry_of(recLog, dr[p]).retry_count < max_retries
          /\ tries_statement(dr[p], dr'[p]) =>
                entry_of(recLog, dr[p]).status # "FAILED"
          /\ gives_up(dr[p], dr'[p])
    /\ fails_statement(mon, mon') => entry_of(recLog, mon).retry_count < max_retries
    /\ tries_statement(mon, mon') => entry_of(recLog, mon).status # "FAILED"
    /\ gives_up(mon, mon')

\* every failed attempt is counted in the entry, so no count passes max_retries
C23_Counted ==
    \A n \in Nodes : \A i \in 1..Len(recLog[n]) :
        recLog[n][i].retry_count <= max_retries

C23_BoundedRetries == [](C23_Counted) /\ [][C23_Step]_vars

(***************************************************************************)
(* C24: a Fetch Data run without account filter shows the rows of the      *)
(* central shard alone when the liveness snapshot shows it up; otherwise    *)
(* the rows of the partition shards the snapshot shows up, one row per     *)
(* trans_id with the row of the shard queried first kept; in both cases     *)
(* in ascending trans_id order and cut to the first L rows.  With no shard *)
(* up in the snapshot it shows the unavailable message and no rows.  A     *)
(* run shows an error and no rows only when a shard it queries does not    *)
(* answer.                                                                 *)
(***************************************************************************)
scan_returned(p) == view[p].pc = "drain" /\ view'[p].pc = "idle"

\* the rows a scan under the snapshot status is to draw from
scan_rows(status) ==
    IF status[Central] THEN trans[Central]
    ELSE {x \in trans[2] : status[2]}
         \cup {x \in trans[3] :
                 status[3] /\ ~(status[2] /\ \E y \in trans[2] : y.trans_id = x.trans_id)}

scan_queried(status) ==
    IF status[Central] THEN {Central} ELSE {n \in {2, 3} : status[n]}

C24_Step ==
    \A p \in Sess :
        scan_returned(p) =>
            LET v == view'[p]
                status == view[p].status
                expected == scan_rows(status)
                got == {v.rows[i] : i \in 1..Len(v.rows)}
            IN /\ v.kind \in {"rows", "unavailable", "error"}
               /\ v.kind = "unavailable" <=> \A n \in Nodes : ~status[n]
               /\ v.kind = "error" <=> \E n \in scan_queried(status) : ~up[n]
               /\ v.kind # "rows" => v.rows = <<>>
               /\ v.kind = "rows" =>
                    /\ got \subseteq expected
                    /\ Len(v.rows) = IF v.limit < Cardinality(expected)
                                     THEN v.limit ELSE Cardinality(expected)
                    /\ \A i, j \in 1..Len(v.rows) :
                          i < j => v.rows[i].trans_id < v.rows[j].trans_id
                    /\ \A x \in expected \ got : \A y \in got :
                          y.trans_id < x.trans_id

C24_ScanRead == [][C24_Step]_vars

\* a scan over both partition shards with limit 1 that kept the row of node 2
\* for a trans_id node 3 holds with another amount, and cut a later row
C24_Witness ==
    LET v == view[Reader]
    IN /\ v.kind = "rows" /\ ~v.status[Central] /\ v.status[2] /\ v.status[3]
       /\ v.limit = 1 /\ Len(v.rows) = 1
       /\ v.rows[1] \in trans[2] /\ v.rows[1] \notin trans[3]
       /\ \E y \in trans[3] : y.trans_id = v.rows[1].trans_id
       /\ \E z \in trans[2] \cup trans[3] : z.trans_id > v.rows[1].trans_id

(***************************************************************************)
(* C25: when the commit handler has committed on the primary, the           *)
(* replication calls it goes on to make are to the natural partition node  *)
(* of the row's account when the primary is node 1, to node 1 when the     *)
(* primary is that partition node, and to node 1 and the natural partition *)
(* node when the primary is the other partition node; never to the primary.*)
(***************************************************************************)
committed_on_primary(p) == tx[p].pc = "open" /\ tx'[p].pc = "replicating"

C25_Step ==
    \A p \in Sess :
        committed_on_primary(p) =>
            LET primary == tx[p].primary
                natural == get_node_for_account(tx[p].stmt.account_id)
                calls == wr'[p].targets
                targets == {calls[i] : i \in 1..Len(calls)}
            IN /\ wr'[p].source = primary
               /\ Len(calls) = Cardinality(targets)
               /\ primary = Central => targets = {natural}
               /\ primary = natural => targets = {Central}
               /\ primary \notin {Central, natural} => targets = {Central, natural}
               /\ primary \notin targets

C25_ReplicationTargets == [][C25_Step]_vars

\* an update of the row of account 3 committed on node 2, the emergency primary
C25_Witness ==
    /\ tx[Writer].pc = "replicating" /\ tx[Writer].primary = 2
    /\ tx[Writer].stmt.account_id = 3
    /\ wr[Writer].pc = "replicate" /\ wr[Writer].source = 2
    /\ wr[Writer].targets = <<1, 3>>

(***************************************************************************)
(* C26: the begin handler, once it holds the lock, opens its transaction   *)
(* on node 1 whenever the node status it read shows node 1 online,         *)
(* otherwise on the natural partition node of the row's account if that    *)
(* is shown online, otherwise on another node shown online; never on a     *)
(* node shown offline; and with no node shown online it ends without       *)
(* opening a transaction.                                                  *)
(***************************************************************************)
chooses_primary(p) == tx[p].pc = "locked" /\ tx'[p] # tx[p]

\* the node status the handler of p's page works from
status_read(p) == IF tx[p].page = "add" THEN up ELSE tx[p].status

C26_Step ==
    \A p \in Sess :
        chooses_primary(p) =>
            LET status == status_read(p)
                opened == tx'[p].pc = "open"
                primary == tx'[p].primary
                natural == get_node_for_account(tx'[p].stmt.account_id)
            IN /\ opened =>
                    /\ primary \in Nodes /\ status[primary]
                    /\ status[Central] => primary = Central
                    /\ (~status[Central] /\ status[natural]) => primary = natural
               /\ (\A n \in Nodes : ~status[n]) =>
                    ~opened /\ tx'[p].pc = "idle"

C26_PrimaryChoice == [][C26_Step]_vars

\* a transaction opened on node 2 for the row of account 3 while nodes 1 and 3
\* are shown offline
C26_Witness ==
    /\ tx[Writer].pc = "open" /\ tx[Writer].page = "update"
    /\ tx[Writer].primary = 2 /\ tx[Writer].stmt.account_id = 3
    /\ ~tx[Writer].status[Central] /\ ~tx[Writer].status[3]

(***************************************************************************)
(* C27: a round of the pinger that finds a node back online only records   *)
(* the new status: neither the round nor anything it calls changes a row   *)
(* of a recovery_log, executes a statement on a trans table or replays an  *)
(* entry.                                                                  *)
(***************************************************************************)
\* a step of the pinger thread: the round itself or the check it starts
pinger_step == ping' # ping \/ mon' # mon

C27_Step ==
    pinger_step => recLog' = recLog /\ trans' = trans /\ replayed' = replayed

C27_ProbeOnlyLogs == [][C27_Step]_vars

(***************************************************************************)
(* C28: a begin handler that has taken the lock and then fails (no node    *)
(* online, no trans_id to be had, row not found, error on the primary)     *)
(* ends with no lock row of its session for the resource on any shard      *)
(* that answers.                                                           *)
(***************************************************************************)
begin_failed(p) == tx[p].pc = "locked" /\ tx'[p].pc = "idle"

\* the rows of session s for resource r on shard n
lock_rows(tab, s, r, n) ==
    {x \in tab[n] : x.lock_name = lock_name(r) /\ x.locked_by = s}

C28_Step ==
    \A p \in Sess :
        begin_failed(p) =>
            \A n \in Nodes : up[n] => lock_rows(lockTab', p, tx[p].res, n) = {}

C28_FailedBeginReleases == [][C28_Step]_vars

(***************************************************************************)
(* C29: the sync at the end of acquire_multi_node_lock leaves every        *)
(* distributed_lock row of another session as it is: it writes a row only  *)
(* on a shard that has no row for the resource.                            *)
(***************************************************************************)
\* the end of acquire_multi_node_lock with the lock acquired
sync_step(p) == tx[p].pc = "lock" /\ tx'[p].pc = "locked"

C29_Step ==
    \A p \in Sess :
        sync_step(p) =>
            \A n \in Nodes :
                /\ \A x \in select_lock(n, tx[p].res) :
                        ~is_ours(x, p) => x \in lockTab'[n]
                /\ lockTab'[n] # lockTab[n] => select_lock(n, tx[p].res) = {}

C29_SyncKeepsForeignRows == [][C29_Step]_vars

(***************************************************************************)
(* C30: no two sessions are at the same time between the return of True    *)
(* from acquire_multi_node_lock and the call of release_multi_node_lock    *)
(* for the same resource, whatever shards go down and come back.           *)
(***************************************************************************)
\* p's acquire_multi_node_lock returned True and p has not called the release
holds_multi(p) == tx[p].pc \in {"locked", "open", "replicating"}

C30_MutualExclusion ==
    \A p, q \in Sess :
        (p # q /\ holds_multi(p) /\ holds_multi(q)) => tx[p].res # tx[q].res

(***************************************************************************)
(* C31: an acquire_lock call, also one made by acquire_multi_node_lock     *)
(* after part of its 30 seconds has passed, replaces the row of another    *)
(* session only when that row is older than the lock timeout of the write  *)
(* pages (30 seconds).                                                     *)
(***************************************************************************)
\* a step of the for loop of p's acquire_multi_node_lock
acquire_step(p) == tx[p].pc = "lock" /\ tx'[p].pc = "lock" /\ tx'[p] # tx[p]

C31_Step ==
    \A p \in Sess :
        acquire_step(p) =>
            \A n \in Nodes : \A x \in lockTab[n] :
                (~is_ours(x, p) /\ x \notin lockTab'[n]) =>
                    is_stale(x, WriteLockTimeout)

C31_TakeoverOnlyWhenStale == [][C31_Step]_vars


(* C32: the quick count ends a drain cycle before the mutex only when no    *)
(* reachable shard holds a PENDING recovery entry: an entry that is only on *)
(* a partition shard is scanned by the next cycle too.                      *)
\* execute_global_recovery(p) would return after the quick count
quick_skip(p) ==
    dr[p].pc = "idle" /\ wr[p].pc = "idle" /\ up[Central] /\ count_pending(Central) = 0

C32_QuickSkipOnlyWhenNothingPending ==
    \A p \in Sess :
        quick_skip(p) => \A n \in Nodes : up[n] => count_pending(n) = 0


(* C33: a drain cycle that acquired the mutex (the node_id = 0 row of       *)
(* recovery_checkpoints) has set the row back to -1 when it returns, on     *)
(* every path: normal end, replay error, shard failure during the cycle.    *)
\* p's cycle returns from the finally block
drain_returns(p) == dr[p].pc = "release" /\ dr'[p].pc = "idle"

C33_Step ==
    \A p \in Sess : drain_returns(p) => ckpt_value(ckptTab', 0, -1) = -1

C33_MutexReleasedOnReturn == [][C33_Step]_vars


(* C34: a replayed statement does not overwrite a later write to the same   *)
(* row that is committed and replicated: once every recovery entry is       *)
(* COMPLETED and no write or replay is in progress, each row has the same   *)
(* value on the central shard and on its natural partition shard.           *)
\* every recovery_log row of every shard is COMPLETED
all_completed ==
    \A n \in Nodes : \A i \in 1..Len(recLog[n]) : recLog[n][i].status = "COMPLETED"

\* no write and no replay run is in progress
quiescent ==
    /\ \A p \in Sess : wr[p].pc = "idle" /\ dr[p].pc = "idle"
    /\ mon.pc = "idle"

\* the rows of partition n are the same on node 1 and on n
same_rows(n) ==
    {x \in trans[Central] : get_node_for_account(x.account_id) = n} = trans[n]

C34_ReplayKeepsLaterWrite ==
    (all_completed /\ quiescent) => \A n \in Nodes \ {Central} : same_rows(n)


(* C35: at the end of the loop over the entries of shard s the stored       *)
(* checkpoint of s is the largest k such that every log_id from the old     *)
(* checkpoint + 1 up to k was replayed successfully in this cycle; it is    *)
(* unchanged when the first fetched entry failed or is not the old          *)
(* checkpoint + 1, and when nothing was fetched.                            *)
\* log_id j was replayed successfully in the loop that o records: the
\* statement was executed on its target or found applied there
replayed_ok(o, j) ==
    \E i \in 1..Len(o) : o[i].log_id = j /\ o[i].attempted /\ counts_as_success(o[i].result)

RECURSIVE consecutive_from(_, _, _)
\* the largest k >= c with every log_id of c+1..k replayed successfully
consecutive_from(o, c, hi) ==
    IF c < hi /\ replayed_ok(o, c + 1) THEN consecutive_from(o, c + 1, hi) ELSE c

\* p's cycle ends the loop over the entries of a shard
loop_ends(p) == dr[p].pc = "update" /\ dr'[p].pc # "update"

C35_Step ==
    \A p \in Sess :
        loop_ends(p) =>
            LET n == dr[p].node
                old == ckpt_value(ckptTab, n, 0)
            IN ckpt_value(ckptTab', n, 0) = consecutive_from(order[p], old, Len(recLog[n]))

C35_CheckpointIsConsecutivePrefix == [][C35_Step]_vars


(* C36: the status of a recovery_log row changes only from PENDING to       *)
(* COMPLETED or from PENDING to FAILED; a row that is COMPLETED or FAILED   *)
(* keeps its status under every interleaving of replay runs.                *)
C36_Step ==
    \A n \in Nodes : \A i \in 1..Len(recLog[n]) :
        recLog'[n][i].status # recLog[n][i].status =>
            /\ recLog[n][i].status = "PENDING"
            /\ recLog'[n][i].status \in {"COMPLETED", "FAILED"}

C36_StatusTerminal == [][C36_Step]_vars


(* C37: release_lock(resource, shard) deletes only a row of the resource on  *)
(* that shard whose holder is the caller, and deletes it when the shard is   *)
(* reached; a call made while another session holds the lock, while no row   *)
(* exists, or a second time leaves every table unchanged.                    *)
\* the step is a release_lock call of s
release_call(s) == order'[s] # order[s]

C37_Step ==
    \A s \in Sess :
        release_call(s) =>
            LET c == order'[s][1]
                own == {x \in select_lock(c.node, c.res) : x.locked_by = s}
            IN /\ \A n \in Nodes :
                    lockTab'[n] = IF n = c.node /\ c.reached
                                  THEN lockTab[n] \ own ELSE lockTab[n]
               /\ own = {} => lockTab' = lockTab

C37_ReleaseFrame == [][C37_Step]_vars

\* a session has called release_lock on a shard it reached while the other
\* session held the row, and the row is still there
C37_Witness ==
    \E s \in Sess :
        /\ order[s] # <<>>
        /\ order[s][1].reached
        /\ order[s][1].other
        /\ \E x \in select_lock(order[s][1].node, order[s][1].res) : x.locked_by # s


(* C38: every acquire_lock call returns: True when the caller's row is on   *)
(* the shard, False at the first step after a connection error, False at    *)
(* the first poll after the timeout while another session's row is not      *)
(* stale; acquire_multi_node_lock leaves its loop within its overall        *)
(* deadline.                                                                *)
\* the acquire_lock call of s is running
in_call(s) == lm[s].pc \in {"loop", "insert"}

\* s's call makes a step (a crash that breaks its connection is not one)
call_step(s) == in_call(s) /\ lm'[s] # lm[s] /\ up' = up

returns_false(s) == lm'[s].pc = "ret" /\ ~lm'[s].result
returns_true(s) == lm'[s].pc = "ret" /\ lm'[s].result

\* the row of the call's resource on its shard belongs to s
has_row(tab, s) ==
    \E x \in tab[lm[s].node] : x.lock_name = lock_name(lm[s].res) /\ x.locked_by = s

C38_Step ==
    \A s \in Sess :
        /\ (call_step(s) /\ ~(up[lm[s].node] /\ lm[s].connOk)) => returns_false(s)
        /\ (call_step(s) /\ lm[s].pc = "loop"
                /\ timed_out(lm[s].start, lm[s].timeout)) => returns_false(s)
        /\ (call_step(s) /\ returns_true(s)) => has_row(lockTab', s)
        /\ (in_call(s) /\ has_row(lockTab', s) /\ ~has_row(lockTab, s)) => returns_true(s)

\* no call is still running a clock step after its deadline
C38_Deadline ==
    /\ \A s \in Sess : in_call(s) => now - lm[s].start < lm[s].timeout + TickStep
    /\ \A p \in Sess : tx[p].pc = "lock" => now - tx[p].start < WriteLockTimeout + TickStep

C38_Termination ==
    /\ \A s \in Sess : in_call(s) ~> (lm[s].pc = "ret")
    /\ \A p \in Sess : (tx[p].pc = "lock") ~> (tx[p].pc # "lock")
    /\ [][C38_Step]_vars
    /\ []C38_Deadline

\* a call has returned False at its deadline while the other session's row,
\* written when the call began, is still on the shard
C38_Witness ==
    \E s \in Sess :
        /\ lm[s].pc = "ret" /\ ~lm[s].result
        /\ lm[s].timeout = WriteLockTimeout
        /\ now - lm[s].start >= WriteLockTimeout
        /\ up[lm[s].node] /\ lm[s].connOk
        /\ \E x \in select_lock(lm[s].node, lm[s].res) :
                x.locked_by # s /\ x.lock_time = lm[s].start


(* C39: a log_backup call that succeeds leaves the entry on the source      *)
(* shard and, when the third shard b (neither source nor target) is         *)
(* reachable, a PENDING copy on b that differs in the error_message only;   *)
(* when the copy cannot be written the call still succeeds and the source   *)
(* entry remains.                                                           *)
\* the hash of p's log_backup call
call_hash(p) ==
    IF wr[p].pc = "lb_check"
    THEN generate_transaction_hash(wr[p].target, wr[p].source, wr[p].stmt, day)
    ELSE wr[p].hash

\* p's call returns True at the duplicate check
dedup_hit(p) ==
    /\ wr[p].pc = "lb_check" /\ wr'[p].pc = "replicate"
    /\ up[wr[p].source] /\ already_logged(recLog, wr[p].source, call_hash(p))

\* p's call returns True after its INSERT and the cross-backup attempt
logged_new(p) == wr[p].pc = "lb_backup" /\ wr'[p].pc = "replicate"

\* the third shard of p's call
third_shard(p) == backup_node(wr[p].target, wr[p].source, wr[p].source)

has_entry(log, n, h) == \E i \in 1..Len(log[n]) : log[n][i].transaction_hash = h

\* shard b holds the copy of the entry of p's call
has_copy(log, b, p) ==
    \E i \in 1..Len(log[b]) :
        log[b][i] = new_log_row(wr[p].target, wr[p].source, wr[p].stmt,
                                call_hash(p), "CROSS_BACKUP")

\* what every successful call leaves behind
backed_up(p) ==
    /\ has_entry(recLog', wr[p].source, call_hash(p))
    /\ (third_shard(p) # NoNode /\ up[third_shard(p)]) => has_copy(recLog', third_shard(p), p)
    /\ ~(third_shard(p) # NoNode /\ up[third_shard(p)]) => recLog' = recLog

\* as stated: for every call that returns success
C39_Step == \A p \in Sess : (dedup_hit(p) \/ logged_new(p)) => backed_up(p)

C39_CrossBackup == [][C39_Step]_vars

\* amended: for the calls that insert the entry
C39_NewStep ==
    \A p \in Sess :
        /\ logged_new(p) => backed_up(p)
        /\ dedup_hit(p) => recLog' = recLog

C39_CrossBackupOfNewEntry == [][C39_NewStep]_vars

\* as stated, for the duplicate hits that no other call's INSERT is racing
C39_SettledStep ==
    \A p \in Sess :
        (dedup_hit(p) /\ \A q \in Sess : wr[q].pc \notin {"lb_insert", "lb_backup"})
            => backed_up(p)

C39_SettledDuplicate == [][C39_SettledStep]_vars

\* a source entry without a copy on the third shard: the copy could not be
\* written and the entry is still there
C39_Witness ==
    \E n \in Nodes : \E i \in 1..Len(recLog[n]) :
        LET e == recLog[n][i]
            b == backup_node(e.target_node, e.source_node, e.source_node)
        IN /\ e.error_message = "NULL" /\ e.source_node = n /\ e.status = "PENDING"
           /\ b # NoNode
           /\ ~has_entry(recLog, b, e.transaction_hash)
           /\ \A p \in Sess : wr[p].pc = "idle"


(* C40: between the calls of a session, its active-lock set lists a shard   *)
(* for a resource only if that shard's distributed_lock table holds a row   *)
(* for the resource whose holder is the session, and lists no shard twice.  *)
\* shard n has a row for r held by s
holds_row(s, r, n) == lock_rows(lockTab, s, r, n) # {}

listed_rows_exist(s, r) ==
    \A i \in 1..Len(active[s][r]) : holds_row(s, r, active[s][r][i])

listed_once(s, r) ==
    \A i, j \in 1..Len(active[s][r]) : active[s][r][i] = active[s][r][j] => i = j

C40_ActiveLocksAreHeld ==
    \A s \in Sess, r \in Resources :
        lm[s].pc = "idle" => listed_rows_exist(s, r) /\ listed_once(s, r)

\* the two halves, each on its own
C40_ListedRowsExist ==
    \A s \in Sess, r \in Resources : lm[s].pc = "idle" => listed_rows_exist(s, r)

C40_ListedOnce ==
    \A s \in Sess, r \in Resources : lm[s].pc = "idle" => listed_once(s, r)

====
